---- MODULE Spec2Model ----
(***************************************************************************)
(* Cultural Nodes: the relational metadata store (KnowledgeStore, SQLite), *)
(* the dual-storage ingestion pipeline and the cultural retriever.         *)
(*                                                                         *)
(* A metadata dictionary is a function from key names to values; a missing *)
(* key is a key outside its DOMAIN and Python's None is the string "None". *)
(* A themes value is tagged with its Python type: [type |-> "list", val |->*)
(* <<names>>] or [type |-> "str", val |-> <<JSON tokens>>].                *)
(* The documents table keeps the columns the store's queries read          *)
(* (vector_id, source_type, authority_level, epistemic_origin, language,   *)
(* has_citation); a row's id is its position (AUTOINCREMENT, no deletes).  *)
(***************************************************************************)
EXTENDS Integers, Sequences, FiniteSets, TLC

VARIABLES
    db,        \* committed image of the SQLite database
    stored,    \* history: vector_id -> metadata of every add_document that returned
    ret,       \* last call of the sequential store client and what it returned
    writer,    \* per ingestion unit: the add_document call in progress
    lock,      \* holder of the SQLite write lock, or NoWriter
    reader,    \* a concurrent reader connection and what it has fetched
    cands,     \* the vector index's candidates for the query, by descending similarity
    out,       \* last retrieval call and what it returned
    vindex,    \* vector ids the vector index has accepted, in order
    call,      \* last ingestion call: arguments, injected failures, printed lines, outcome
    self_verbose,  \* IngestionPipeline.verbose, fixed by the constructor
    meta_call, \* last call of the curatorial gate or the metadata enricher, and its outcome
    chunker_call,      \* last call of the discourse chunker, and its outcome
    submissions,       \* the submissions table: row id -> row
    background_tasks,  \* process_ingestion tasks queued by the curation endpoints
    response           \* last response of a curation endpoint

storeVars == <<db, stored, ret, writer, lock, reader>>
retrievalVars == <<cands, out>>
pipelineVars == <<vindex, call, self_verbose, meta_call>>

curationVars == <<submissions, background_tasks, response>>
moreVars == <<chunker_call, curationVars>>

vars == <<storeVars, retrievalVars, pipelineVars, moreVars>>

\* The chunker and the curation endpoints have not been called.
MoreIdle ==
    /\ chunker_call = [op |-> "none"]
    /\ submissions = <<>>
    /\ background_tasks = <<>>
    /\ response = [op |-> "none"]

\* ---------------------------------------------------------------- bounds
MaxDocs == 2
MaxRelations == 2
MaxCands == 4
MaxChunks == 3
MaxPathLen == 4

\* ------------------------------------------------------------- constants
None == "None"
DefaultLimit == 100

\* --------------------------------------------------------------- helpers
Get(m, key, default) == IF key \in DOMAIN m THEN m[key] ELSE default

Range(s) == {s[i] : i \in DOMAIN s}

Take(s, n) == IF n >= Len(s) THEN s ELSE SubSeq(s, 1, n)

\* dict.update: the keys of u replace those of m.
Update(m, u) == u @@ m

\* The sum of the values of a dictionary of counts.
RECURSIVE SumCounts(_)
SumCounts(counts) ==
    IF DOMAIN counts = {} THEN 0
    ELSE LET v == CHOOSE v \in DOMAIN counts : TRUE
         IN counts[v] + SumCounts([w \in DOMAIN counts \ {v} |-> counts[w]])

\* Python truthiness: of a flag (`1 if flag else 0`) and of an optional
\* string argument (`if source_type:`).
Truthy(x) == x = TRUE

StrTruthy(s) == s \notin {None, ""}

PyList(s) == [type |-> "list", val |-> s]
PyStr(toks) == [type |-> "str", val |-> toks]

\* json.loads restricted to what a themes string can hold: a JSON array of
\* string literals.  A text is a sequence of tokens "[", "]", "," or a string
\* literal; anything that is not `[ lit (, lit)* ]` or `[ ]` raises.
JsonPunct == {"[", "]", ","}

json_loads(toks) ==
    LET n == Len(toks)
        wellFormed ==
            /\ n >= 2
            /\ toks[1] = "["
            /\ toks[n] = "]"
            /\ \/ n = 2
               \/ /\ n % 2 = 1
                  /\ \A i \in 2..(n - 1) :
                        IF i % 2 = 0 THEN toks[i] \notin JsonPunct
                                     ELSE toks[i] = ","
    IN IF wellFormed
       THEN [ok |-> TRUE,
             val |-> [j \in 1..((n - 1) \div 2) |-> toks[2 * j]]]
       ELSE [ok |-> FALSE, val |-> <<>>]

\* ------------------------------------------------------ the empty schema
EmptyDb ==
    [documents          |-> <<>>,
     themes             |-> <<>>,
     document_themes    |-> <<>>,
     relations          |-> <<>>,
     embedding_versions |-> <<>>,
     metadata           |-> <<>>]

\* ------------------------------------------------------------ add_document
DocColumns ==
    {"vector_id", "title", "source_type", "authority_level", "epistemic_origin",
     "language", "region", "discourse_position", "chunk_role", "sensitivity",
     "ingest_policy", "folder_path", "filename", "chunk_index", "has_citation",
     "created_at"}

doc_data_swapped(vector_id, m) ==
    [vector_id        |-> vector_id,
     source_type      |-> Get(m, "authority_level", "situated"),
     authority_level  |-> Get(m, "source_type", "general"),
     epistemic_origin |-> Get(m, "epistemic_origin", "local_knowledge"),
     language         |-> Get(m, "language", "id"),
     has_citation     |-> IF Truthy(Get(m, "has_citation", FALSE)) THEN 1 ELSE 0]

doc_data(vector_id, m) ==
    [vector_id        |-> vector_id,
     source_type      |-> Get(m, "source_type", "general"),
     authority_level  |-> Get(m, "authority_level", "situated"),
     epistemic_origin |-> Get(m, "epistemic_origin", "local_knowledge"),
     language         |-> Get(m, "language", "id"),
     has_citation     |-> IF Truthy(Get(m, "has_citation", FALSE)) THEN 1 ELSE 0]

\* INSERT INTO documents: vector_id is UNIQUE, the three provenance columns
\* are NOT NULL; a violated constraint raises IntegrityError.
InsertDocumentsRow(d, row) ==
    IF \/ \E i \in DOMAIN d.documents : d.documents[i].vector_id = row.vector_id
       \/ row.source_type = None
       \/ row.authority_level = None
       \/ row.epistemic_origin = None
    THEN [ok |-> FALSE, db |-> d]
    ELSE [ok |-> TRUE, db |-> [d EXCEPT !.documents = Append(@, row)]]

ThemeId(d, name) == CHOOSE i \in DOMAIN d.themes : d.themes[i] = name

\* A theme insert that does not look the name up first.
get_or_create_theme_insert_only(d, theme_name) ==
    [db |-> [d EXCEPT !.themes = Append(@, theme_name)], id |-> Len(d.themes) + 1]

get_or_create_theme(d, theme_name) ==
    IF \E i \in DOMAIN d.themes : d.themes[i] = theme_name
    THEN [db |-> d, id |-> ThemeId(d, theme_name)]
    ELSE [db |-> [d EXCEPT !.themes = Append(@, theme_name)],
          id |-> Len(d.themes) + 1]

\* INSERT OR IGNORE INTO document_themes: a row whose primary key
\* (doc_id, theme_id) is in the table already is not inserted.
InsertOrIgnore(rows, row) == IF row \in Range(rows) THEN rows ELSE Append(rows, row)

\* One iteration of the theme loop: resolve the theme, insert the
\* association.
LinkTheme(d, doc_id, theme_name) ==
    LET r == get_or_create_theme(d, theme_name)
    IN [r.db EXCEPT !.document_themes = InsertOrIgnore(@, <<doc_id, r.id>>)]

HasEmbeddingVersion(m) ==
    "embedding_model" \in DOMAIN m /\ "embedding_version" \in DOMAIN m

InsertEmbeddingVersion(d, doc_id, m) ==
    [d EXCEPT !.embedding_versions =
        Append(@, [doc_id |-> doc_id,
                   model |-> m["embedding_model"],
                   version |-> m["embedding_version"]])]

excluded_keys == DocColumns \cup {"themes", "embedding_model", "embedding_version"}

\* Keys a metadata dictionary may carry beyond the core schema, in the order
\* the pipeline inserts them into the dictionary.
OverflowKeyOrder == <<"category", "related_nodes", "ingested_at">>

OverflowKeys(m) ==
    SelectSeq(OverflowKeyOrder,
              LAMBDA k : k \in DOMAIN m /\ k \notin excluded_keys /\ m[k] # None)

InsertOverflow(d, doc_id, m, key) ==
    [d EXCEPT !.metadata = Append(@, [doc_id |-> doc_id, key |-> key, value |-> m[key]])]

\* The call as a sequence of statements.  A context holds the call's
\* arguments, the connection's uncommitted image `work`, lastrowid, the
\* themes and overflow keys still to insert, and the next statement.
AfterEmbedding(m) == IF OverflowKeys(m) # <<>> THEN "overflow" ELSE "commit"

AfterThemes(m) == IF HasEmbeddingVersion(m) THEN "embedding" ELSE AfterEmbedding(m)

StartCall(d, vector_id, m) ==
    [pc |-> "insert", v |-> vector_id, m |-> m, work |-> d, doc_id |-> 0,
     todo |-> <<>>, keys |-> OverflowKeys(m)]

Failed(c) == [c EXCEPT !.pc = "failed"]

ExecInsert(c) ==
    LET r == InsertDocumentsRow(c.work, doc_data(c.v, c.m))
    IN IF r.ok
       THEN [c EXCEPT !.work = r.db, !.doc_id = Len(r.db.documents), !.pc = "parse"]
       ELSE Failed(c)

ExecParse(c) ==
    LET themes == Get(c.m, "themes", PyList(<<>>))
        parsed == IF themes.type = "str" THEN json_loads(themes.val)
                  ELSE [ok |-> TRUE, val |-> themes.val]
    IN IF parsed.ok
       THEN [c EXCEPT !.todo = parsed.val,
                      !.pc = IF parsed.val # <<>> THEN "theme" ELSE AfterThemes(c.m)]
       ELSE Failed(c)

ExecTheme(c) ==
    [c EXCEPT !.work = LinkTheme(c.work, c.doc_id, Head(c.todo)),
              !.todo = Tail(c.todo),
              !.pc = IF Tail(c.todo) # <<>> THEN "theme" ELSE AfterThemes(c.m)]

ExecEmbedding(c) ==
    [c EXCEPT !.work = InsertEmbeddingVersion(c.work, c.doc_id, c.m),
              !.pc = AfterEmbedding(c.m)]

ExecOverflow(c) ==
    [c EXCEPT !.work = InsertOverflow(c.work, c.doc_id, c.m, Head(c.keys)),
              !.keys = Tail(c.keys),
              !.pc = IF Tail(c.keys) # <<>> THEN "overflow" ELSE "commit"]

\* One statement of add_document before conn.commit().
ExecStatement(c) ==
    CASE c.pc = "insert"    -> ExecInsert(c)
      [] c.pc = "parse"     -> ExecParse(c)
      [] c.pc = "theme"     -> ExecTheme(c)
      [] c.pc = "embedding" -> ExecEmbedding(c)
      [] c.pc = "overflow"  -> ExecOverflow(c)

RECURSIVE RunToCommit(_)
RunToCommit(c) ==
    IF c.pc \in {"commit", "failed"} THEN c ELSE RunToCommit(ExecStatement(c))

\* add_document run without interruption on database image d: the image
\* after conn.commit() and the returned doc_id, or the raised exception
\* (the connection is dropped uncommitted, so d is what remains).
add_document(d, vector_id, m) ==
    LET c == RunToCommit(StartCall(d, vector_id, m))
    IN IF c.pc = "commit"
       THEN [ok |-> TRUE, db |-> c.work, doc_id |-> c.doc_id]
       ELSE [ok |-> FALSE, db |-> d, doc_id |-> 0]

\* ------------------------------------------------ get_document_by_vector_id
FindDocument(d, vector_id) ==
    IF \E i \in DOMAIN d.documents : d.documents[i].vector_id = vector_id
    THEN CHOOSE i \in DOMAIN d.documents : d.documents[i].vector_id = vector_id
    ELSE 0

\* SELECT t.name FROM themes t JOIN document_themes dt ... WHERE dt.doc_id = ?
SelectThemes(d, doc_id) ==
    SelectSeq(d.themes,
              LAMBDA name : \E i \in DOMAIN d.themes :
                               d.themes[i] = name /\ <<doc_id, i>> \in Range(d.document_themes))

get_document_by_vector_id(d, vector_id) ==
    LET id == FindDocument(d, vector_id)
    IN IF id = 0
       THEN [found |-> FALSE]
       ELSE [found |-> TRUE, id |-> id, row |-> d.documents[id],
             themes |-> SelectThemes(d, id)]

\* ------------------------------------------------------------- add_relation
add_relation_from_only(d, from_vector_id, to_vector_id, relation_type) ==
    LET from_row == FindDocument(d, from_vector_id)
        to_row   == FindDocument(d, to_vector_id)
    IN IF from_row = 0
       THEN [result |-> FALSE, db |-> d]
       ELSE [result |-> TRUE,
             db |-> [d EXCEPT !.relations =
                        Append(@, [from_doc_id |-> from_row, to_doc_id |-> to_row,
                                   relation_type |-> relation_type])]]

add_relation(d, from_vector_id, to_vector_id, relation_type) ==
    LET from_row == FindDocument(d, from_vector_id)
        to_row   == FindDocument(d, to_vector_id)
    IN IF from_row = 0 \/ to_row = 0
       THEN [result |-> FALSE, db |-> d]
       ELSE [result |-> TRUE,
             db |-> [d EXCEPT !.relations =
                        Append(@, [from_doc_id |-> from_row, to_doc_id |-> to_row,
                                   relation_type |-> relation_type])]]

\* --------------------------------------------------------- query_by_filters
\* A filter set: the four optional scalar arguments (None when not given),
\* the themes list (<<>> for None or []) and the limit.
Filter(source_type, authority_level, epistemic_origin, themes, language, limit) ==
    [source_type |-> source_type, authority_level |-> authority_level,
     epistemic_origin |-> epistemic_origin, themes |-> themes,
     language |-> language, limit |-> limit]

\* where_clauses / params as the four `if <arg>:` blocks build them.
ScalarOrder == <<"source_type", "authority_level", "epistemic_origin", "language">>

where_clauses(f) == SelectSeq(ScalarOrder, LAMBDA col : StrTruthy(f[col]))

ScalarParams(f) == [j \in DOMAIN where_clauses(f) |-> f[where_clauses(f)[j]]]

\* The parameter list handed to cursor.execute: the scalar values were
\* appended first, then params.extend(themes), then [len(themes), limit].
QueryParams(f) ==
    IF f.themes # <<>>
    THEN ScalarParams(f) \o f.themes \o <<Len(f.themes), f.limit>>
    ELSE ScalarParams(f) \o <<f.limit>>

\* The rows the SELECT yields, as document ids in id order before LIMIT.
\* Placeholders are bound by position in the SQL text: with themes, the
\* IN (...) list comes first, then the scalar clauses, then HAVING, LIMIT.
MatchingIds(d, f) ==
    LET params  == QueryParams(f)
        n       == Len(f.themes)
        clauses == where_clauses(f)
        k       == Len(clauses)
        ids     == [i \in 1..Len(d.documents) |-> i]
    IN IF f.themes # <<>>
       THEN LET inList == {params[j] : j \in 1..n}
                having == params[n + k + 1]
                joined(i) == {t \in DOMAIN d.themes :
                                 /\ <<i, t>> \in Range(d.document_themes)
                                 /\ d.themes[t] \in inList}
                keep(i) == /\ joined(i) # {}
                           /\ \A j \in 1..k : d.documents[i][clauses[j]] = params[n + j]
                           /\ Cardinality(joined(i)) = having
            IN SelectSeq(ids, keep)
       ELSE LET keep(i) == \A j \in 1..k : d.documents[i][clauses[j]] = params[j]
            IN SelectSeq(ids, keep)

query_by_filters(d, f) ==
    LET rows == Take(MatchingIds(d, f), QueryParams(f)[Len(QueryParams(f))])
    IN [j \in DOMAIN rows |-> d.documents[rows[j]].vector_id]

\* =========================================================================
\* Inputs
\* =========================================================================
VectorIds == {"v1", "v2", "v3"}

RelationTypes == {"cites"}

ArchivalColonialism ==
    [title |-> "t", source_type |-> "archival", authority_level |-> "archival",
     epistemic_origin |-> "historical_archive",
     themes |-> PyList(<<"colonialism">>), has_citation |-> TRUE,
     embedding_model |-> "minilm", embedding_version |-> "2026-11",
     category |-> "general"]

ArchivalTechnology ==
    [title |-> "t", source_type |-> "archival", authority_level |-> "archival",
     epistemic_origin |-> "historical_archive",
     themes |-> PyList(<<"technology">>)]

\* one theme named twice
RepeatedTheme == [title |-> "t", themes |-> PyList(<<"ritual", "ritual">>)]

\* themes already serialized to a JSON string (to_storage_format)
CommunityBoth ==
    [title |-> "t", source_type |-> "community", authority_level |-> "situated",
     epistemic_origin |-> "community_archive", language |-> "en",
     themes |-> PyStr(<<"[", "technology", ",", "colonialism", "]">>),
     has_citation |-> TRUE, category |-> "general", related_nodes |-> "[]"]

\* no provenance keys, themes string cut short
MalformedThemes ==
    [title |-> "t", themes |-> PyStr(<<"[", "colonialism">>), category |-> "web"]

NullSourceType ==
    [title |-> "t", source_type |-> None, authority_level |-> "situated",
     epistemic_origin |-> "local_knowledge", themes |-> PyList(<<"technology">>)]

StoreMetas ==
    {ArchivalColonialism, ArchivalTechnology, CommunityBoth,
     MalformedThemes, NullSourceType}

LinkPairs == {<<"v1", "v1">>, <<"v1", "v2">>, <<"v2", "v3">>}

ThemeLists ==
    {<<"colonialism">>, <<"colonialism", "technology">>,
     <<"technology", "colonialism">>, <<"colonialism", "ritual">>,
     <<"colonialism", "colonialism">>}

QueryInputs ==
    {Filter(None, None, None, T, None, DefaultLimit) : T \in ThemeLists \cup {<<>>}}
    \cup {Filter(S, None, None, T, None, DefaultLimit) :
            S \in {"archival", "community"},
            T \in {<<>>, <<"colonialism">>, <<"colonialism", "technology">>}}
    \cup {Filter("archival", "archival", None, <<>>, None, DefaultLimit),
          Filter(None, "situated", None, <<"technology">>, "en", DefaultLimit),
          Filter(None, None, "historical_archive", <<>>, "id", 1),
          Filter(None, None, None, <<"technology">>, None, 1)}

\* =========================================================================
\* The store used by one client at a time: every call runs to completion.
\* =========================================================================
NoWriter == "none"
Writers == {"u1", "u2"}
IdleWriter == [pc |-> "idle"]
IdleReader == [pc |-> "idle"]

StoreInit ==
    /\ db = EmptyDb
    /\ stored = <<>>
    /\ ret = [op |-> "none"]
    /\ writer = [w \in Writers |-> IdleWriter]
    /\ lock = NoWriter
    /\ reader = IdleReader
    /\ cands = <<>>
    /\ out = [op |-> "none"]
    /\ vindex = <<>>
    /\ call = [op |-> "none"]
    /\ self_verbose = FALSE
    /\ meta_call = [op |-> "none"]
    /\ MoreIdle

AddDocument(v, m) ==
    LET r == add_document(db, v, m)
    IN /\ r.ok => Len(db.documents) < MaxDocs
       /\ db' = r.db
       /\ stored' = IF r.ok THEN (v :> m) @@ stored ELSE stored
       /\ ret' = [op |-> "add", v |-> v, ok |-> r.ok]
       /\ UNCHANGED <<moreVars, retrievalVars, pipelineVars, writer, lock, reader>>

AddRelation(a, b, t) ==
    LET r == add_relation(db, a, b, t)
    IN /\ r.result => Len(db.relations) < MaxRelations
       /\ db' = r.db
       /\ ret' = [op |-> "link", a |-> a, b |-> b, t |-> t,
                  result |-> r.result, before |-> db.relations]
       /\ UNCHANGED <<moreVars, retrievalVars, pipelineVars, stored, writer, lock, reader>>

QueryByFilters(f) ==
    /\ ret' = [op |-> "query", f |-> f, result |-> query_by_filters(db, f)]
    /\ UNCHANGED <<moreVars, retrievalVars, pipelineVars, db, stored, writer, lock, reader>>

GetDocument(v) ==
    /\ ret' = [op |-> "get", v |-> v, result |-> get_document_by_vector_id(db, v)]
    /\ UNCHANGED <<moreVars, retrievalVars, pipelineVars, db, stored, writer, lock, reader>>

StoreNext ==
    \/ \E v \in VectorIds, m \in StoreMetas : AddDocument(v, m)
    \/ \E p \in LinkPairs, t \in RelationTypes : AddRelation(p[1], p[2], t)
    \/ \E f \in QueryInputs : QueryByFilters(f)
    \/ \E v \in VectorIds : GetDocument(v)

SpecStore == StoreInit /\ [][StoreNext]_vars

\* =========================================================================
\* Properties of the store under SpecStore
\* =========================================================================
\* The theme names attached to document row i in image d.
ThemesOfDoc(d, i) ==
    {d.themes[t] : t \in {u \in DOMAIN d.themes : <<i, u>> \in Range(d.document_themes)}}

\* The themes a metadata dictionary asks for, as a set.
ThemeSetOf(m) ==
    LET themes == Get(m, "themes", PyList(<<>>))
    IN IF themes.type = "str" THEN Range(json_loads(themes.val).val)
       ELSE Range(themes.val)

OnlyScalar(f, col) ==
    \A c \in Range(ScalarOrder) : c # col => ~StrTruthy(f[c])

\* C1: query_by_filters(source_type=S, themes=T) returns exactly the
\* vector_ids of the documents whose source_type is S and whose theme set
\* contains every theme of T.
C1_ConjunctiveFilter ==
    (/\ ret.op = "query"
     /\ StrTruthy(ret.f.source_type)
     /\ OnlyScalar(ret.f, "source_type")
     /\ ret.f.limit = DefaultLimit)
    => Range(ret.result) =
          {db.documents[i].vector_id :
             i \in {j \in DOMAIN db.documents :
                      /\ db.documents[j].source_type = ret.f.source_type
                      /\ Range(ret.f.themes) \subseteq ThemesOfDoc(db, j)}}

\* C3: with no other filter, query_by_filters(themes=T) returns a document
\* iff every theme of T is attached to it, for every list T.
C3_ThemeContainment ==
    (/\ ret.op = "query"
     /\ \A c \in Range(ScalarOrder) : ~StrTruthy(ret.f[c])
     /\ ret.f.limit = DefaultLimit)
    => Range(ret.result) =
          {db.documents[i].vector_id :
             i \in {j \in DOMAIN db.documents :
                      Range(ret.f.themes) \subseteq ThemesOfDoc(db, j)}}

\* C4: get_document_by_vector_id(v) after a successful add_document(v, m)
\* returns m's source_type and authority_level, m's themes as a set and a
\* has_citation of the same truth value, whatever was added in between.
C4_RoundTrip ==
    (ret.op = "get" /\ ret.v \in DOMAIN stored)
    => LET m == stored[ret.v]
           r == ret.result
       IN /\ r.found
          /\ r.row.vector_id = ret.v
          /\ "source_type" \in DOMAIN m => r.row.source_type = m["source_type"]
          /\ "authority_level" \in DOMAIN m => r.row.authority_level = m["authority_level"]
          /\ Range(r.themes) = ThemeSetOf(m)
          /\ (r.row.has_citation # 0) = Truthy(Get(m, "has_citation", FALSE))

\* A fetch of the serialized-themes community document, stored first, after
\* another document and a relation on other rows were added.
C4_Witness ==
    /\ ret.op = "get"
    /\ ret.v \in DOMAIN stored
    /\ stored[ret.v] = CommunityBoth
    /\ db.documents[1].vector_id = ret.v
    /\ Len(db.documents) = 2
    /\ Len(db.relations) >= 1
    /\ Range(ret.result.themes) = {"colonialism", "technology"}

EndpointsExist(d, a, b) == FindDocument(d, a) # 0 /\ FindDocument(d, b) # 0

\* C5: add_relation(a, b, t) returns false and leaves the relations table
\* as it was when a or b is not stored; otherwise it returns true and
\* appends exactly the row (a, b, t), duplicates and self-relations included.
C5_AddRelation ==
    ret.op = "link"
    => /\ ret.result = EndpointsExist(db, ret.a, ret.b)
       /\ db.relations =
            IF EndpointsExist(db, ret.a, ret.b)
            THEN Append(ret.before,
                        [from_doc_id |-> FindDocument(db, ret.a),
                         to_doc_id |-> FindDocument(db, ret.b),
                         relation_type |-> ret.t])
            ELSE ret.before

\* link(a, b) with a stored and b not stored was refused, on a table that
\* already holds the same self-relation twice.
C5_Witness ==
    /\ ret.op = "link"
    /\ ~ret.result
    /\ FindDocument(db, ret.a) # 0
    /\ FindDocument(db, ret.b) = 0
    /\ Len(db.relations) = 2
    /\ db.relations[1] = db.relations[2]
    /\ db.relations[1].from_doc_id = db.relations[1].to_doc_id

\* =========================================================================
\* The store under concurrent ingestion units and a reader.
\*
\* Every call opens its own connection (_get_connection).  sqlite3 opens a
\* transaction implicitly before the first INSERT, which takes the write
\* lock; the statements that follow change only that connection's
\* uncommitted image until conn.commit().  add_document has no try/finally:
\* when a statement raises, the connection is dropped uncommitted and its
\* transaction is rolled back when the connection is finalized, which may
\* be immediately or at a later garbage collection; until then it keeps the
\* write lock.  A process crash leaves the rollback to SQLite's journal.
\* =========================================================================
\* What other connections can see after a statement ran inside a
\* connection's open transaction.
StatementEffectAutocommit(committed, work) == work

StatementEffect(committed, work) == committed

\* The image a reader's own connection reads from.
ReadImageDirty(committed, uncommitted) == uncommitted

ReadImage(committed, uncommitted) == committed

TxnMetas == {ArchivalColonialism, CommunityBoth, MalformedThemes}

\* Metadata of documents that share themes and repeat one.
ThemeMetas == {ArchivalColonialism, CommunityBoth, RepeatedTheme}

TxnQueries ==
    {Filter(None, None, None, <<>>, None, DefaultLimit),
     Filter(None, None, None, <<"colonialism">>, None, DefaultLimit),
     Filter(None, None, None, <<"colonialism", "technology">>, None, DefaultLimit)}

InCall(w) == writer[w].pc \in {"parse", "theme", "embedding", "overflow", "commit"}

\* First statement of add_document by unit w: INSERT INTO documents, inside
\* the transaction it opens on the current committed image.
BeginInsert(w, v, m) ==
    /\ writer[w].pc = "idle"
    /\ lock = NoWriter
    /\ Len(db.documents) < MaxDocs
    /\ LET c == ExecInsert(StartCall(db, v, m))
       IN /\ writer' = [writer EXCEPT ![w] = c]
          /\ db' = StatementEffect(db, c.work)
    /\ lock' = w
    /\ UNCHANGED <<moreVars, retrievalVars, pipelineVars, stored, ret, reader>>

\* The write lock is held by another connection for longer than the busy
\* timeout: the INSERT raises OperationalError.
BusyTimeout(w, v, m) ==
    /\ writer[w].pc = "idle"
    /\ lock \notin {NoWriter, w}
    /\ writer' = [writer EXCEPT ![w] = Failed(StartCall(db, v, m))]
    /\ UNCHANGED <<moreVars, retrievalVars, pipelineVars, db, stored, ret, lock, reader>>

\* The next statement of the call (theme parsing, a theme link, the
\* embedding-version row, an overflow row).
Statement(w) ==
    /\ writer[w].pc \in {"parse", "theme", "embedding", "overflow"}
    /\ LET c == ExecStatement(writer[w])
       IN /\ writer' = [writer EXCEPT ![w] = c]
          /\ db' = StatementEffect(db, c.work)
    /\ UNCHANGED <<moreVars, retrievalVars, pipelineVars, stored, ret, lock, reader>>

\* A statement raises (sqlite3.Error: unsupported value, I/O error).
StatementRaises(w) ==
    /\ writer[w].pc \in {"theme", "embedding", "overflow"}
    /\ writer' = [writer EXCEPT ![w] = Failed(@)]
    /\ UNCHANGED <<moreVars, retrievalVars, pipelineVars, db, stored, ret, lock, reader>>

\* conn.commit(); conn.close(); return doc_id
Commit(w) ==
    /\ writer[w].pc = "commit"
    /\ db' = writer[w].work
    /\ stored' = (writer[w].v :> writer[w].m) @@ stored
    /\ writer' = [writer EXCEPT ![w] = IdleWriter]
    /\ lock' = NoWriter
    /\ UNCHANGED <<moreVars, retrievalVars, pipelineVars, ret, reader>>

\* The dropped connection of a failed call is finalized: rollback, unlock.
CloseDropped(w) ==
    /\ writer[w].pc = "failed"
    /\ writer' = [writer EXCEPT ![w] = IdleWriter]
    /\ lock' = IF lock = w THEN NoWriter ELSE lock
    /\ UNCHANGED <<moreVars, retrievalVars, pipelineVars, db, stored, ret, reader>>

\* The unit's process dies inside the call, before its commit.
Crash(w) ==
    /\ InCall(w)
    /\ writer' = [writer EXCEPT ![w] = IdleWriter]
    /\ lock' = IF lock = w THEN NoWriter ELSE lock
    /\ UNCHANGED <<moreVars, retrievalVars, pipelineVars, db, stored, ret, reader>>

Uncommitted ==
    IF lock \in Writers /\ writer[lock].pc # "idle" THEN writer[lock].work ELSE db

VisibleIds(d) == {d.documents[i].vector_id : i \in DOMAIN d.documents}

\* get_document_by_vector_id, first SELECT (the documents row).
ReadRow(v) ==
    /\ reader.pc = "idle"
    /\ LET d == ReadImage(db, Uncommitted)
           id == FindDocument(d, v)
       IN reader' = IF id = 0
                    THEN [pc |-> "done", op |-> "get", v |-> v,
                          result |-> [found |-> FALSE]]
                    ELSE [pc |-> "themes", op |-> "get", v |-> v, id |-> id,
                          row |-> d.documents[id]]
    /\ UNCHANGED <<moreVars, retrievalVars, pipelineVars, db, stored, ret, writer, lock>>

\* get_document_by_vector_id, second SELECT (the theme names) and return.
ReadThemes ==
    /\ reader.pc = "themes"
    /\ LET d == ReadImage(db, Uncommitted)
       IN reader' = [pc |-> "done", op |-> "get", v |-> reader.v,
                     result |-> [found |-> TRUE, id |-> reader.id, row |-> reader.row,
                                 themes |-> SelectThemes(d, reader.id)]]
    /\ UNCHANGED <<moreVars, retrievalVars, pipelineVars, db, stored, ret, writer, lock>>

\* query_by_filters on the reader's connection (one SELECT); `visible`
\* records the vector_ids whose rows that SELECT could see.
ReadQuery(f) ==
    /\ reader.pc = "idle"
    /\ LET d == ReadImage(db, Uncommitted)
       IN reader' = [pc |-> "done", op |-> "query", f |-> f,
                     result |-> query_by_filters(d, f), visible |-> VisibleIds(d)]
    /\ UNCHANGED <<moreVars, retrievalVars, pipelineVars, db, stored, ret, writer, lock>>

\* SELECT column, COUNT(*) FROM documents GROUP BY column, as a dictionary.
GroupCount(d, column) ==
    [value \in {d.documents[i][column] : i \in DOMAIN d.documents} |->
        Cardinality({i \in DOMAIN d.documents : d.documents[i][column] = value})]

\* get_stats issues five SELECTs on its connection, outside any
\* transaction: each reads the image committed when it runs.  `began` and
\* `ended` are the numbers of committed documents at the first and at the
\* last of them.
StatsTotalDocuments ==
    /\ reader.pc = "idle"
    /\ reader' = [pc |-> "by_source_type", op |-> "stats", began |-> Len(db.documents),
                  stats |-> [total_documents |->
                                Len(ReadImage(db, Uncommitted).documents)]]
    /\ UNCHANGED <<moreVars, retrievalVars, pipelineVars, db, stored, ret, writer, lock>>

StatsBySourceType ==
    /\ reader.pc = "by_source_type"
    /\ reader' = [reader EXCEPT
                     !.pc = "by_authority",
                     !.stats = @ @@ [by_source_type |->
                                       GroupCount(ReadImage(db, Uncommitted), "source_type")]]
    /\ UNCHANGED <<moreVars, retrievalVars, pipelineVars, db, stored, ret, writer, lock>>

StatsByAuthority ==
    /\ reader.pc = "by_authority"
    /\ reader' = [reader EXCEPT
                     !.pc = "total_themes",
                     !.stats = @ @@ [by_authority |->
                                       GroupCount(ReadImage(db, Uncommitted),
                                                  "authority_level")]]
    /\ UNCHANGED <<moreVars, retrievalVars, pipelineVars, db, stored, ret, writer, lock>>

StatsTotalThemes ==
    /\ reader.pc = "total_themes"
    /\ reader' = [reader EXCEPT
                     !.pc = "total_relations",
                     !.stats = @ @@ [total_themes |->
                                       Len(ReadImage(db, Uncommitted).themes)]]
    /\ UNCHANGED <<moreVars, retrievalVars, pipelineVars, db, stored, ret, writer, lock>>

StatsTotalRelations ==
    /\ reader.pc = "total_relations"
    /\ reader' = [pc |-> "done", op |-> "stats", began |-> reader.began,
                  ended |-> Len(db.documents),
                  result |-> reader.stats @@
                             [total_relations |->
                                 Len(ReadImage(db, Uncommitted).relations)]]
    /\ UNCHANGED <<moreVars, retrievalVars, pipelineVars, db, stored, ret, writer, lock>>

ReaderReturns ==
    /\ reader.pc = "done"
    /\ reader' = IdleReader
    /\ UNCHANGED <<moreVars, retrievalVars, pipelineVars, db, stored, ret, writer, lock>>

TxnNext ==
    \/ \E w \in Writers, v \in VectorIds, m \in TxnMetas : BeginInsert(w, v, m)
    \/ \E w \in Writers, v \in VectorIds, m \in TxnMetas : BusyTimeout(w, v, m)
    \/ \E w \in Writers : Statement(w)
    \/ \E w \in Writers : StatementRaises(w)
    \/ \E w \in Writers : Commit(w)
    \/ \E w \in Writers : CloseDropped(w)
    \/ \E w \in Writers : Crash(w)
    \/ \E v \in VectorIds : ReadRow(v)
    \/ ReadThemes
    \/ \E f \in TxnQueries : ReadQuery(f)
    \/ ReaderReturns

SpecTxn == StoreInit /\ [][TxnNext]_vars

\* The ingestion units alone, writing documents that share themes.
ThemesNext ==
    \/ \E w \in Writers, v \in VectorIds, m \in ThemeMetas : BeginInsert(w, v, m)
    \/ \E w \in Writers, v \in VectorIds, m \in ThemeMetas : BusyTimeout(w, v, m)
    \/ \E w \in Writers : Statement(w)
    \/ \E w \in Writers : StatementRaises(w)
    \/ \E w \in Writers : Commit(w)
    \/ \E w \in Writers : CloseDropped(w)
    \/ \E w \in Writers : Crash(w)

SpecThemes == StoreInit /\ [][ThemesNext]_vars

\* The ingestion units and a client that calls get_stats.
StatsNext ==
    \/ \E w \in Writers, v \in VectorIds, m \in TxnMetas : BeginInsert(w, v, m)
    \/ \E w \in Writers, v \in VectorIds, m \in TxnMetas : BusyTimeout(w, v, m)
    \/ \E w \in Writers : Statement(w)
    \/ \E w \in Writers : StatementRaises(w)
    \/ \E w \in Writers : Commit(w)
    \/ \E w \in Writers : CloseDropped(w)
    \/ \E w \in Writers : Crash(w)
    \/ StatsTotalDocuments
    \/ StatsBySourceType
    \/ StatsByAuthority
    \/ StatsTotalThemes
    \/ StatsTotalRelations
    \/ ReaderReturns

SpecStats == StoreInit /\ [][StatsNext]_vars

\* =========================================================================
\* Properties of the store under SpecTxn
\* =========================================================================
RowsOf(table, i) == {j \in DOMAIN table : table[j].doc_id = i}

\* Row i of image d and everything hanging off it is what one complete
\* add_document(v, m) writes.
CompleteDocument(d, i, m) ==
    /\ d.documents[i] = doc_data(d.documents[i].vector_id, m)
    /\ ThemesOfDoc(d, i) = ThemeSetOf(m)
    /\ Cardinality(RowsOf(d.embedding_versions, i)) = IF HasEmbeddingVersion(m) THEN 1 ELSE 0
    /\ {d.metadata[j].key : j \in RowsOf(d.metadata, i)} = Range(OverflowKeys(m))
    /\ Cardinality(RowsOf(d.metadata, i)) = Len(OverflowKeys(m))

\* C9: add_document is all-or-nothing.  The committed database holds
\* document rows exactly for the calls that returned, each with its complete
\* theme links, embedding-version row and overflow rows, and nothing else:
\* no row, link, theme, version or overflow row of a call that failed or
\* crashed before its commit.
C9_AllOrNothing ==
    /\ VisibleIds(db) = DOMAIN stored
    /\ \A i \in DOMAIN db.documents :
          CompleteDocument(db, i, stored[db.documents[i].vector_id])
    /\ \A i, j \in DOMAIN db.documents :
          db.documents[i].vector_id = db.documents[j].vector_id => i = j
    /\ \A p \in Range(db.document_themes) :
          p[1] \in DOMAIN db.documents /\ p[2] \in DOMAIN db.themes
    /\ \A t \in DOMAIN db.themes :
          \E i \in DOMAIN db.documents : <<i, t>> \in Range(db.document_themes)
    /\ \A j \in DOMAIN db.embedding_versions :
          db.embedding_versions[j].doc_id \in DOMAIN db.documents
    /\ \A j \in DOMAIN db.metadata : db.metadata[j].doc_id \in DOMAIN db.documents

\* A call has raised after its document row and a theme link were written
\* to its transaction; a document stored earlier is in the database.
C9_Witness ==
    \E w \in Writers :
        /\ writer[w].pc = "failed"
        /\ lock = w
        /\ Len(writer[w].work.documents) > Len(db.documents)
        /\ writer[w].work.document_themes # db.document_themes
        /\ Len(db.documents) >= 1
        /\ writer[w].v \notin VisibleIds(db)

\* C26: the themes table holds at most one row per name, every
\* document-theme association refers to an existing document and an
\* existing theme, and a document is associated with a theme at most once,
\* after add_document calls in sequence and from concurrent units.
C26_ThemesDeduplicated ==
    /\ \A i, j \in DOMAIN db.themes : db.themes[i] = db.themes[j] => i = j
    /\ \A r \in DOMAIN db.document_themes :
          /\ db.document_themes[r][1] \in DOMAIN db.documents
          /\ db.document_themes[r][2] \in DOMAIN db.themes
    /\ \A r, q \in DOMAIN db.document_themes :
          db.document_themes[r] = db.document_themes[q] => r = q

\* Two documents that both name colonialism are committed, the second one
\* introducing no new theme row, while another unit's call has failed.
C26_Witness ==
    /\ Len(db.documents) = 2
    /\ \A i \in DOMAIN db.documents : "colonialism" \in ThemesOfDoc(db, i)
    /\ Cardinality({t \in DOMAIN db.themes : db.themes[t] = "colonialism"}) = 1
    /\ \E w \in Writers : writer[w].pc = "failed"

\* A document whose themes list names ritual twice is committed with one
\* association.
C26_WitnessRepeated ==
    \E i \in DOMAIN db.documents :
        /\ stored[db.documents[i].vector_id] = RepeatedTheme
        /\ Cardinality({r \in DOMAIN db.document_themes : db.document_themes[r][1] = i}) = 1

\* C29: in every result of get_stats the by_source_type counts and the
\* by_authority counts each sum to total_documents, also when add_document
\* calls of other units commit between its queries.
C29_StatsConsistent ==
    (reader.pc = "done" /\ reader.op = "stats") =>
        /\ SumCounts(reader.result.by_source_type) = reader.result.total_documents
        /\ SumCounts(reader.result.by_authority) = reader.result.total_documents

\* The same for the calls during which nothing was committed.
C29_ConsistentWithoutCommit ==
    (reader.pc = "done" /\ reader.op = "stats" /\ reader.ended = reader.began) =>
        /\ SumCounts(reader.result.by_source_type) = reader.result.total_documents
        /\ SumCounts(reader.result.by_authority) = reader.result.total_documents

\* A get_stats over one committed document, with no commit during it.
C29_QuietCall ==
    /\ reader.pc = "done"
    /\ reader.op = "stats"
    /\ reader.ended = reader.began
    /\ reader.result.total_documents = 1
    /\ SumCounts(reader.result.by_source_type) = 1

\* C10: a reader never observes a half-written document.  A fetch by
\* vector_id that finds a row returns the row and the complete theme set of
\* a committed add_document; a theme query sees only committed documents
\* and returns every visible one whose complete theme set contains the
\* requested themes.
C10_NoHalfWritten ==
    /\ (reader.pc = "done" /\ reader.op = "get" /\ reader.result.found)
       => /\ reader.v \in DOMAIN stored
          /\ reader.result.row = doc_data(reader.v, stored[reader.v])
          /\ Range(reader.result.themes) = ThemeSetOf(stored[reader.v])
    /\ (reader.pc = "done" /\ reader.op = "query")
       => /\ reader.visible \subseteq DOMAIN stored
          /\ Range(reader.result) =
                {v \in reader.visible : Range(reader.f.themes) \subseteq ThemeSetOf(stored[v])}

\* A fetch of v returned while an add_document(v, m) had written its row
\* and the first of two theme links but not yet committed: v is not seen.
C10_Witness ==
    /\ reader.pc = "done"
    /\ reader.op = "get"
    /\ ~reader.result.found
    /\ \E w \in Writers :
          /\ writer[w].pc = "theme"
          /\ writer[w].v = reader.v
          /\ Len(writer[w].todo) = 1
          /\ Cardinality(ThemeSetOf(writer[w].m)) = 2

\* =========================================================================
\* CulturalRetriever.  The similarity search is the injected primitive:
\* search(query, k) is the first k entries of the index's candidate list for
\* the query, which is ordered by descending similarity.  A candidate is
\* [id, score, meta]; scores are positive integers.  Authority weights are
\* kept as integers: tenths for AUTHORITY_WEIGHTS, and the community boost
\* 1.3 as 13 against 10, so an adjusted score is in thousandths.
\* =========================================================================
Scores == {1, 2}

CommunityChunk ==
    [source_type |-> "community", authority_level |-> "situated",
     epistemic_origin |-> "community_archive", discourse_position |-> "critical"]
AcademicChunk ==
    [source_type |-> "academic", authority_level |-> "academic",
     epistemic_origin |-> "academic_research", discourse_position |-> "supportive"]
MediaChunk ==
    [source_type |-> "media", authority_level |-> "media",
     epistemic_origin |-> "media_discourse", discourse_position |-> "neutral"]
ArchivalChunk ==
    [source_type |-> "archival", authority_level |-> "archival",
     epistemic_origin |-> "historical_archive", discourse_position |-> "questioning"]
GeneralChunk ==
    [source_type |-> "general", authority_level |-> "situated",
     epistemic_origin |-> "local_knowledge", discourse_position |-> "neutral"]

ChunkProfiles == {CommunityChunk, AcademicChunk, MediaChunk, ArchivalChunk, GeneralChunk}

\* Every candidate list of at most MaxCands chunks with non-increasing scores.
CandidateLists ==
    LET raw == UNION {[1..n -> ChunkProfiles \X Scores] : n \in 0..MaxCands}
        ordered(r) == \A i \in DOMAIN r : i > 1 => r[i - 1][2] >= r[i][2]
    IN {[i \in DOMAIN r |-> [id |-> i, score |-> r[i][2], meta |-> r[i][1]]] :
           r \in {q \in raw : ordered(q)}}

\* A pool of nine candidates, community and academic chunks in any mix.
PoolsOfNine ==
    {[i \in 1..9 |-> [id |-> i, score |-> IF i <= 4 THEN 2 ELSE 1, meta |-> f[i]]] :
        f \in [1..9 -> {CommunityChunk, AcademicChunk}]}

similarity_search_with_score(c, k) == Take(c, k)

\* return [doc for doc, score in docs_with_scores]
retrieve_standard(c, k) == similarity_search_with_score(c, k)

AUTHORITY_WEIGHTS ==
    [situated |-> 12, academic |-> 10, media |-> 9, institutional |-> 8, archival |-> 11]

AuthorityWeight(authority, boost_community) ==
    LET weight == IF authority \in DOMAIN AUTHORITY_WEIGHTS
                  THEN AUTHORITY_WEIGHTS[authority] ELSE 10
    IN IF boost_community /\ authority = "situated" THEN weight * 13 ELSE weight * 10

\* A descending sort that reverses the order of equal keys.
SortDescReversingTies(ranked) ==
    LET before(i, j) == \/ ranked[i].final_score > ranked[j].final_score
                        \/ (ranked[i].final_score = ranked[j].final_score /\ i > j)
        rank(j) == 1 + Cardinality({i \in DOMAIN ranked : before(i, j)})
    IN [p \in DOMAIN ranked |-> ranked[CHOOSE j \in DOMAIN ranked : rank(j) = p]]

\* ranked.sort(key=lambda x: x[1], reverse=True): descending and stable.
SortDescStable(ranked) ==
    LET before(i, j) == \/ ranked[i].final_score > ranked[j].final_score
                        \/ (ranked[i].final_score = ranked[j].final_score /\ i < j)
        rank(j) == 1 + Cardinality({i \in DOMAIN ranked : before(i, j)})
    IN [p \in DOMAIN ranked |-> ranked[CHOOSE j \in DOMAIN ranked : rank(j) = p]]

retrieve_authority_ranked(c, boost_community, k) ==
    LET candidates == similarity_search_with_score(c, k * 2)
        final_score(x) ==
            x.score * AuthorityWeight(Get(x.meta, "authority_level", "academic"),
                                      boost_community)
        ranked == [i \in DOMAIN candidates |->
                      [doc |-> candidates[i], final_score |-> final_score(candidates[i])]]
        sorted == SortDescStable(ranked)
    IN Take([i \in DOMAIN sorted |-> sorted[i].doc], k)

\* A retrieval that fills up to k with candidates that did not pass.
retrieve_epistemic_padded(c, flt, k) ==
    LET candidates == similarity_search_with_score(c, k * 3)
        pass(x) == \A key \in {"epistemic_origin", "source_type", "authority_level"} :
                      StrTruthy(flt[key]) => Get(x.meta, key, None) = flt[key]
    IN Take(SelectSeq(candidates, pass) \o SelectSeq(candidates, LAMBDA x : ~pass(x)), k)

\* flt: the three optional filters, None when not given.
retrieve_epistemic(c, flt, k) ==
    LET candidates == similarity_search_with_score(c, k * 3)
        pass(x) == \A key \in {"epistemic_origin", "source_type", "authority_level"} :
                      StrTruthy(flt[key]) => Get(x.meta, key, None) = flt[key]
    IN Take(SelectSeq(candidates, pass), k)

PluralSourceTypes == <<"community", "academic", "media", "archival">>

SourceFilter(source_type) ==
    [epistemic_origin |-> None, source_type |-> source_type, authority_level |-> None]

\* A dict that keeps a key for every source type, matched or not.
retrieve_plural_keeping_empty(c, k_per_source) ==
    [st \in Range(PluralSourceTypes) |->
        retrieve_epistemic(c, SourceFilter(st), k_per_source)]

\* A dict keyed by the source types that had a match.
retrieve_plural(c, k_per_source) ==
    LET docs(st) == retrieve_epistemic(c, SourceFilter(st), k_per_source)
    IN [st \in {t \in Range(PluralSourceTypes) : docs(t) # <<>>} |-> docs(st)]

\* The values of a dict in insertion order, concatenated.
RECURSIVE ExtendAll(_, _, _)
ExtendAll(list, dict, order) ==
    IF order = <<>> THEN list
    ELSE ExtendAll(IF Head(order) \in DOMAIN dict THEN list \o dict[Head(order)] ELSE list,
                   dict, Tail(order))

CountBy(docs, key) ==
    LET val(x) == Get(x.meta, key, "unknown")
    IN [v \in {val(docs[i]) : i \in DOMAIN docs} |->
           Cardinality({i \in DOMAIN docs : val(docs[i]) = v})]

\* `all_docs = primary_docs` binds a second name to the list object already
\* stored in result["primary_docs"]; all_docs.extend(...) therefore extends
\* that one list, and the returned primary_docs is the extended list.
assemble_cultural_context(c, include_perspectives, boost_community, k) ==
    LET primary_docs == retrieve_authority_ranked(c, boost_community, k)
        perspectives == IF include_perspectives THEN retrieve_plural(c, 1) ELSE <<>>
        all_docs == IF include_perspectives
                    THEN ExtendAll(primary_docs, perspectives, PluralSourceTypes)
                    ELSE primary_docs
    IN [primary_docs |-> all_docs,
        perspectives |-> perspectives,
        metadata_summary |->
            [total_documents |-> Len(all_docs),
             by_source    |-> CountBy(all_docs, "source_type"),
             by_authority |-> CountBy(all_docs, "authority_level"),
             by_discourse |-> CountBy(all_docs, "discourse_position")]]

Max(a, b) == IF a >= b THEN a ELSE b

positions == <<"critical", "supportive", "neutral", "questioning">>

\* The candidates of one discourse position, in candidate order; a chunk
\* without discourse_position counts as neutral.
by_position(candidates, position) ==
    SelectSeq(candidates,
              LAMBDA x : Get(x.meta, "discourse_position", "neutral") = position)

\* The assembled subset, bucket after bucket, left as assembled.
retrieve_discourse_balanced_unsorted(c, k) ==
    Take(ExtendAll(<<>>,
                   [p \in Range(positions) |->
                       Take(by_position(similarity_search_with_score(c, k * 3), p),
                            Max(1, k \div Len(positions)))],
                   positions),
         k)

\* balanced.sort(key=lambda x: x[1], reverse=True); balanced[:k]
retrieve_discourse_balanced(c, k) ==
    LET balanced == ExtendAll(<<>>,
                       [p \in Range(positions) |->
                           Take(by_position(similarity_search_with_score(c, k * 3), p),
                                Max(1, k \div Len(positions)))],
                       positions)
        sorted == SortDescStable([i \in DOMAIN balanced |->
                                     [doc |-> balanced[i], final_score |-> balanced[i].score]])
    IN Take([i \in DOMAIN sorted |-> sorted[i].doc], k)

RetrievalStrategy ==
    {"standard", "epistemic", "plural", "authority_ranked", "discourse_balanced"}

\* kwargs is the dictionary of keyword arguments the caller passed.
retrieve_cultural(c, strategy, kwargs) ==
    CASE strategy = "standard" ->
           retrieve_standard(c, Get(kwargs, "k", 4))
      [] strategy = "epistemic" ->
           retrieve_epistemic(c, [key \in {"epistemic_origin", "source_type",
                                           "authority_level"} |-> Get(kwargs, key, None)],
                              Get(kwargs, "k", 4))
      [] strategy = "plural" ->
           ExtendAll(<<>>, retrieve_plural(c, Get(kwargs, "k_per_source", 2)),
                     PluralSourceTypes)
      [] strategy = "authority_ranked" ->
           retrieve_authority_ranked(c, Get(kwargs, "boost_community", TRUE),
                                     Get(kwargs, "k", 4))
      [] strategy = "discourse_balanced" ->
           retrieve_discourse_balanced(c, Get(kwargs, "k", 4))
      [] OTHER ->
           retrieve_standard(c, Get(kwargs, "k", 4))

\* strategy_map.get(request.strategy, RetrievalStrategy.AUTHORITY_RANKED)
strategy_map(name) == IF name \in RetrievalStrategy THEN name ELSE "authority_ranked"

\* POST /cultural/chat: the chain retrieves with k and boost_community of
\* the request; the generated answer is left out.
cultural_chat(c, request) ==
    [strategy_used |-> strategy_map(request.strategy),
     docs |-> retrieve_cultural(c, strategy_map(request.strategy),
                                [k |-> request.k,
                                 boost_community |-> request.boost_community])]

Ks == {1, 2}

RetrievalInit ==
    /\ db = EmptyDb
    /\ stored = <<>>
    /\ ret = [op |-> "none"]
    /\ writer = [w \in Writers |-> IdleWriter]
    /\ lock = NoWriter
    /\ reader = IdleReader
    /\ cands \in CandidateLists \cup PoolsOfNine
    /\ out = [op |-> "none"]
    /\ vindex = <<>>
    /\ call = [op |-> "none"]
    /\ self_verbose = FALSE
    /\ meta_call = [op |-> "none"]
    /\ MoreIdle

AssembleContext(k, boost_community, include_perspectives) ==
    /\ out.op = "none"
    /\ out' = [op |-> "assemble", k |-> k, boost_community |-> boost_community,
               include_perspectives |-> include_perspectives,
               result |-> assemble_cultural_context(cands, include_perspectives,
                                                    boost_community, k)]
    /\ UNCHANGED <<moreVars, storeVars, pipelineVars, cands>>

\* The strategy names a caller may send: the known ones and one that is
\* not a strategy.
StrategyNames == RetrievalStrategy \cup {"semantic"}

EpistemicKs == {1, 2, 3}

DiscourseKs == {1, 2, 4, 8}

EpistemicFilters ==
    [epistemic_origin : {None, "community_archive"},
     source_type : {None, "community", "academic"},
     authority_level : {None, "situated"}]

\* The retrieval call and what it returned.  The retriever keeps nothing
\* between calls, so one call per candidate list is followed.
Retrieved(op, args, result) ==
    /\ out.op = "none"
    /\ out' = [op |-> op, result |-> result] @@ args
    /\ UNCHANGED <<moreVars, storeVars, pipelineVars, cands>>

RetrieveCultural(strategy, k, boost_community) ==
    Retrieved("retrieve_cultural",
              [strategy |-> strategy, k |-> k, boost_community |-> boost_community],
              retrieve_cultural(cands, strategy,
                                [k |-> k, boost_community |-> boost_community]))

CulturalChat(strategy, k, boost_community) ==
    Retrieved("cultural_chat",
              [strategy |-> strategy, k |-> k, boost_community |-> boost_community],
              cultural_chat(cands, [strategy |-> strategy, k |-> k,
                                    boost_community |-> boost_community]).docs)

RetrieveEpistemic(flt, k) ==
    Retrieved("retrieve_epistemic", [flt |-> flt, k |-> k],
              retrieve_epistemic(cands, flt, k))

RetrieveDiscourseBalanced(k) ==
    Retrieved("retrieve_discourse_balanced", [k |-> k],
              retrieve_discourse_balanced(cands, k))

RetrieveAuthorityRanked(k, boost_community) ==
    Retrieved("retrieve_authority_ranked", [k |-> k, boost_community |-> boost_community],
              retrieve_authority_ranked(cands, boost_community, k))

RetrievePlural(k_per_source) ==
    Retrieved("retrieve_plural", [k_per_source |-> k_per_source],
              retrieve_plural(cands, k_per_source))

RetrievalNext ==
    \/ \E k \in Ks, b \in BOOLEAN, p \in BOOLEAN : AssembleContext(k, b, p)
    \/ \E strategy \in StrategyNames, k \in Ks, b \in BOOLEAN :
          RetrieveCultural(strategy, k, b)
    \/ \E strategy \in StrategyNames, k \in Ks, b \in BOOLEAN :
          CulturalChat(strategy, k, b)
    \/ \E flt \in EpistemicFilters, k \in EpistemicKs : RetrieveEpistemic(flt, k)
    \/ \E k \in DiscourseKs : RetrieveDiscourseBalanced(k)
    \/ \E k \in Ks, b \in BOOLEAN : RetrieveAuthorityRanked(k, b)
    \/ \E k_per_source \in Ks : RetrievePlural(k_per_source)

SpecRetrieval == RetrievalInit /\ [][RetrievalNext]_vars

\* C2: the primary list of assemble_cultural_context is exactly the
\* Authority-ranked result for (query, k, boost_community), with at most k
\* chunks, whether or not perspectives are included.
C2_PrimaryIsAuthorityRanked ==
    out.op = "assemble"
    => /\ out.result.primary_docs =
             retrieve_authority_ranked(cands, out.boost_community, out.k)
       /\ Len(out.result.primary_docs) <= out.k

Min(a, b) == IF a <= b THEN a ELSE b

\* The candidates search(query, n) returns for the query at hand.
Pool(n) == SubSeq(cands, 1, Min(n, Len(cands)))

\* C14: a request whose strategy is not a known strategy returns the
\* pass-through top-k of search(query, k), in retrieve_cultural and at the
\* cultural chat entry point alike.
C14_UnknownStrategyIsStandard ==
    (out.op \in {"retrieve_cultural", "cultural_chat"} /\ out.strategy \notin RetrievalStrategy)
    => out.result = Pool(out.k)

\* A candidate satisfies every filter that was supplied.
Satisfies(x, flt) == \A key \in DOMAIN flt : flt[key] # None => x.meta[key] = flt[key]

\* C15: retrieve_epistemic returns the first min(k, m) of the m candidates
\* of search(query, 3k) that satisfy every supplied filter, in similarity
\* order, and nothing else; with no match the list is empty.
C15_EpistemicNeverPads ==
    out.op = "retrieve_epistemic" =>
        LET matching == SelectSeq(Pool(3 * out.k), LAMBDA x : Satisfies(x, out.flt))
        IN out.result = SubSeq(matching, 1, Min(out.k, Len(matching)))

\* k = 3 against a pool of nine candidates of which exactly two are
\* community chunks: those two come back and no third.
C15_Witness ==
    /\ out.op = "retrieve_epistemic"
    /\ out.k = 3
    /\ Len(cands) = 9
    /\ out.flt = [epistemic_origin |-> None, source_type |-> "community",
                  authority_level |-> None]
    /\ Cardinality({i \in DOMAIN cands : cands[i].meta.source_type = "community"}) = 2
    /\ Len(out.result) = 2
    /\ \A i \in DOMAIN out.result : out.result[i].meta.source_type = "community"

PositionOf(x) == x.meta.discourse_position

InBucket(seq, position) == {i \in DOMAIN seq : PositionOf(seq[i]) = position}

\* C16: the discourse-balanced result has at most max(1, k div 4) chunks of
\* each position, each of them among the first that many of its position in
\* search(query, 3k), is ordered by similarity descending and has at most k
\* chunks; with k = 4 and all four positions present it has exactly one
\* chunk of each.
C16_DiscourseBalanced ==
    out.op = "retrieve_discourse_balanced" =>
        LET r == out.result
            pool == Pool(3 * out.k)
            cap == Max(1, out.k \div 4)
        IN /\ Len(r) <= out.k
           /\ \A i, j \in DOMAIN r : i < j => r[i].score >= r[j].score /\ r[i] # r[j]
           /\ \A p \in Range(positions) : Cardinality(InBucket(r, p)) <= cap
           /\ \A i \in DOMAIN r :
                 /\ r[i] \in Range(pool)
                 /\ Cardinality({j \in InBucket(pool, PositionOf(r[i])) : j < r[i].id}) < cap
           /\ (out.k = 4 /\ \A p \in Range(positions) : InBucket(pool, p) # {})
              => \A p \in Range(positions) : Cardinality(InBucket(r, p)) = 1

\* k = 4, four candidates of four positions, the critical one not the most
\* similar: one of each comes back and the most similar one leads.
C16_Witness ==
    /\ out.op = "retrieve_discourse_balanced"
    /\ out.k = 4
    /\ Len(out.result) = 4
    /\ \A p \in Range(positions) : Cardinality(InBucket(out.result, p)) = 1
    /\ PositionOf(out.result[1]) = "supportive"
    /\ out.result[1].score > out.result[2].score
    /\ PositionOf(out.result[2]) = "critical"

\* The weights as the specification lists them, in tenths, the community
\* boost as 13 against 10.
ListedWeights ==
    [situated |-> 12, academic |-> 10, media |-> 9, institutional |-> 8, archival |-> 11]

Adjusted(x, boost_community) ==
    x.score * ListedWeights[x.meta.authority_level]
            * (IF boost_community /\ x.meta.authority_level = "situated" THEN 13 ELSE 10)

\* x comes before y in a stable descending sort by adjusted score.
RankedBefore(x, y, boost_community) ==
    \/ Adjusted(x, boost_community) > Adjusted(y, boost_community)
    \/ (Adjusted(x, boost_community) = Adjusted(y, boost_community) /\ x.id < y.id)

\* C17: the authority-ranked result is the first k of the search(query, 2k)
\* candidates in stable descending order of similarity times weight:
\* candidates of equal adjusted score keep their similarity order, and with
\* boost_community a situated candidate precedes an academic one of equal
\* raw similarity.
C17_AuthorityRanked ==
    out.op = "retrieve_authority_ranked" =>
        LET r == out.result
            pool == Pool(2 * out.k)
        IN /\ Len(r) = Min(out.k, Len(pool))
           /\ \A i \in DOMAIN r : r[i] \in Range(pool)
           /\ \A i, j \in DOMAIN r : i < j => RankedBefore(r[i], r[j], out.boost_community)
           /\ \A x \in Range(pool) \ Range(r) :
                 \A i \in DOMAIN r : RankedBefore(r[i], x, out.boost_community)
           /\ out.boost_community =>
                 \A i, j \in DOMAIN r :
                    (/\ r[i].meta.authority_level = "situated"
                     /\ r[j].meta.authority_level = "academic"
                     /\ r[i].score = r[j].score) => i < j

\* With the boost, a situated chunk that the search listed after an academic
\* chunk of the same similarity comes back before it, and two chunks of
\* equal adjusted score come back in the order the search listed them.
C17_Witness ==
    /\ out.op = "retrieve_authority_ranked"
    /\ out.boost_community
    /\ out.k = 2
    /\ Len(out.result) = 2
    /\ \E i, j \in DOMAIN cands :
          /\ i < j
          /\ cands[i].meta.authority_level = "academic"
          /\ cands[j].meta.authority_level = "situated"
          /\ cands[i].score = cands[j].score
          /\ out.result[1] = cands[j]
    /\ \E i, j \in DOMAIN cands :
          /\ i < j
          /\ cands[i].meta.authority_level = cands[j].meta.authority_level
          /\ cands[i].score = cands[j].score
          /\ out.result = <<cands[i], cands[j]>>

\* The position of a source type in the fixed order of retrieve_plural.
SourceRank(source_type) ==
    CHOOSE i \in DOMAIN PluralSourceTypes : PluralSourceTypes[i] = source_type

\* C18: retrieve_plural returns a mapping keyed by source types among
\* community, academic, media, archival; the list under a key holds only
\* chunks of that source type, is non-empty, has at most k_per_source
\* chunks in similarity order, and a source type is a key exactly when one
\* of the top 3 * k_per_source candidates has it.  The list retrieve_cultural
\* makes of the mapping keeps the groups apart, in the fixed order.
C18_PluralNeverCrossRanks ==
    /\ out.op = "retrieve_plural" =>
          LET r == out.result
              pool == Pool(3 * out.k_per_source)
          IN /\ DOMAIN r \subseteq Range(PluralSourceTypes)
             /\ \A s \in DOMAIN r :
                   /\ r[s] # <<>>
                   /\ Len(r[s]) <= out.k_per_source
                   /\ \A i \in DOMAIN r[s] :
                         r[s][i] \in Range(pool) /\ r[s][i].meta.source_type = s
                   /\ \A i, j \in DOMAIN r[s] : i < j => r[s][i].id < r[s][j].id
             /\ \A s \in Range(PluralSourceTypes) :
                   s \in DOMAIN r <=> \E x \in Range(pool) : x.meta.source_type = s
    /\ (out.op = "retrieve_cultural" /\ out.strategy = "plural") =>
          \A i, j \in DOMAIN out.result :
             i < j =>
                LET a == out.result[i]
                    b == out.result[j]
                IN /\ a.meta.source_type \in Range(PluralSourceTypes)
                   /\ b.meta.source_type \in Range(PluralSourceTypes)
                   /\ SourceRank(a.meta.source_type) <= SourceRank(b.meta.source_type)
                   /\ a.meta.source_type = b.meta.source_type => a.id < b.id

\* One chunk per source was asked for; two community chunks were among the
\* candidates and one came back, a less similar academic chunk has its own
\* entry, and media, which no candidate has, is not a key.
C18_Witness ==
    /\ out.op = "retrieve_plural"
    /\ out.k_per_source = 1
    /\ Cardinality({i \in DOMAIN Pool(3) : cands[i].meta.source_type = "community"}) = 2
    /\ "community" \in DOMAIN out.result
    /\ "academic" \in DOMAIN out.result
    /\ "media" \notin DOMAIN out.result
    /\ Len(out.result["community"]) = 1
    /\ out.result["academic"][1].score < out.result["community"][1].score

\* C19: the summary of assemble_cultural_context counts every chunk of the
\* union of primary and perspective chunks once: total_documents is the
\* number of distinct chunks, and the by_source, by_authority and
\* by_discourse counts each add up to it.
C19_SummaryOverUnion ==
    out.op = "assemble" =>
        LET r == out.result
            union == Range(r.primary_docs)
                     \cup UNION {Range(r.perspectives[s]) : s \in DOMAIN r.perspectives}
            summary == r.metadata_summary
        IN /\ summary.total_documents = Cardinality(union)
           /\ SumCounts(summary.by_source) = summary.total_documents
           /\ SumCounts(summary.by_authority) = summary.total_documents
           /\ SumCounts(summary.by_discourse) = summary.total_documents

\* =========================================================================
\* CuratorialGate.  A path string is the sequence of its "/"-separated
\* segments: "./knowledge_base/a.txt" is <<".", "knowledge_base", "a.txt">>,
\* a leading "" is a leading slash, the empty string is <<"">>.  A document's
\* content is taken by what detect_language makes of its first characters.
\* =========================================================================

\* pathlib.Path(s): "." and empty segments are dropped, ".." is kept.
Path(file_path) ==
    [absolute |-> Len(file_path) > 1 /\ Head(file_path) = "",
     parts |-> SelectSeq(file_path, LAMBDA seg : seg \notin {"", "."})]

\* self.knowledge_base_root = Path("./knowledge_base")
knowledge_base_root == Path(<<".", "knowledge_base">>)

\* path.relative_to(root) is lexical; it raises ValueError unless the parts
\* of root are a prefix of those of path.
IsRelativeTo(path, root) ==
    /\ path.absolute = root.absolute
    /\ Len(root.parts) <= Len(path.parts)
    /\ SubSeq(path.parts, 1, Len(root.parts)) = root.parts

relative_to(path, root) ==
    IF IsRelativeTo(path, root)
    THEN [raised |-> FALSE, parts |-> SubSeq(path.parts, Len(root.parts) + 1, Len(path.parts))]
    ELSE [raised |-> TRUE, parts |-> <<>>]

SOURCE_TYPE_MAP ==
    [community |-> [authority_level |-> "situated", epistemic_origin |-> "community_archive"],
     academic  |-> [authority_level |-> "academic", epistemic_origin |-> "academic_research"],
     media     |-> [authority_level |-> "media", epistemic_origin |-> "media_discourse"],
     archival  |-> [authority_level |-> "archival", epistemic_origin |-> "historical_archive"]]

\* if len(parts) > 0 and parts[0] in self.SOURCE_TYPE_MAP: return parts[0]
FirstFolder(rel, table) ==
    IF ~rel.raised /\ rel.parts # <<>> /\ Head(rel.parts) \in table
    THEN Head(rel.parts)
    ELSE "general"

\* A mapping that forgets the archival folder.
extract_source_type_no_archival(file_path) ==
    FirstFolder(relative_to(Path(file_path), knowledge_base_root),
                DOMAIN SOURCE_TYPE_MAP \ {"archival"})

\* The first folder under the root if it is in the table; the ValueError of
\* relative_to is caught; the legacy pdf/text/markdown check returns
\* "general" like the final return does.
extract_source_type(file_path) ==
    FirstFolder(relative_to(Path(file_path), knowledge_base_root), DOMAIN SOURCE_TYPE_MAP)

determine_authority_level(source_type) ==
    IF source_type \in DOMAIN SOURCE_TYPE_MAP
    THEN SOURCE_TYPE_MAP[source_type].authority_level
    ELSE "situated"

determine_epistemic_origin(source_type) ==
    IF source_type \in DOMAIN SOURCE_TYPE_MAP
    THEN SOURCE_TYPE_MAP[source_type].epistemic_origin
    ELSE "local_knowledge"

\* Contents: none, a sample with three or more Indonesian function words,
\* any other sample.
Contents == {"", "indonesian", "other"}

detect_language(text) == IF text = "indonesian" THEN "id" ELSE "en"

extract_region(language) == IF language = "id" THEN "nusantara" ELSE "global"

\* str(rel_path.parent), as the parts of the parent.
Parent(parts) == IF parts = <<>> THEN <<>> ELSE SubSeq(parts, 1, Len(parts) - 1)

\* except ValueError: return str(path.parent)
FolderOf(rel, path) == IF rel.raised THEN Parent(path.parts) ELSE Parent(rel.parts)

get_folder_path(file_path) ==
    FolderOf(relative_to(Path(file_path), knowledge_base_root), Path(file_path))

\* CuratorialMetadata(...) of the three lookups, the language and the folder.
CuratorialMetadata(source_type, language, folder_path) ==
    [source_type |-> source_type,
     authority_level |-> determine_authority_level(source_type),
     epistemic_origin |-> determine_epistemic_origin(source_type),
     language |-> language,
     region |-> extract_region(language),
     ingest_policy |-> "cultural",
     folder_path |-> folder_path]

\* The pipeline passes no existing_metadata, so without content the
\* language is the default "id".
curate_document(file_path, content) ==
    CuratorialMetadata(extract_source_type(file_path),
                       IF content # "" THEN detect_language(content) ELSE "id",
                       get_folder_path(file_path))

\* ------------------------------------------------------ validate_metadata
\* class CulturalMetadata(BaseModel): four required string fields, every
\* other field has a default, extra keys are allowed.  authority_level is
\* declared `str`.
RequiredFields == {"title", "source_type", "authority_level", "epistemic_origin"}

CulturalMetadata(metadata) ==
    \A f \in RequiredFields : f \in DOMAIN metadata /\ metadata[f] # None

\* return True, or raise ValueError when the model cannot be built.
validate_metadata(metadata) ==
    IF CulturalMetadata(metadata)
    THEN [raised |-> FALSE, returned |-> TRUE]
    ELSE [raised |-> TRUE, returned |-> None]

\* ------------------------------------------------------------ the inputs
PathSegments ==
    {"", ".", "..", "knowledge_base", "community", "academic", "media", "archival",
     "pdf", "a.txt"}

\* Every path string of at most MaxPathLen segments.
FilePaths == UNION {[1..n -> PathSegments] : n \in 1..MaxPathLen}

AuthorityValues == {"situated", "academic", "institutional", "media", "archival", "expert", None}

ValidationInputs ==
    {[title |-> "t", source_type |-> "community", authority_level |-> a,
      epistemic_origin |-> "community_archive"] : a \in AuthorityValues}
    \cup {[title |-> "t", source_type |-> "community", epistemic_origin |-> "community_archive"]}
    \cup {[title |-> "t", source_type |-> None, authority_level |-> a,
           epistemic_origin |-> "local_knowledge", region |-> "global"] : a \in AuthorityValues}

\* A caller about to hand its argument to the gate or to the validator.
CurateDocument ==
    /\ meta_call.op = "pending"
    /\ meta_call.fn = "curate_document"
    /\ meta_call' = [op |-> "curate_document", file_path |-> meta_call.file_path,
                     content |-> meta_call.content,
                     returned |-> curate_document(meta_call.file_path, meta_call.content)]
    /\ UNCHANGED <<moreVars, storeVars, retrievalVars, vindex, call, self_verbose>>

ValidateMetadata ==
    /\ meta_call.op = "pending"
    /\ meta_call.fn = "validate_metadata"
    /\ meta_call' = [op |-> "validate_metadata", metadata |-> meta_call.metadata]
                       @@ validate_metadata(meta_call.metadata)
    /\ UNCHANGED <<moreVars, storeVars, retrievalVars, vindex, call, self_verbose>>

\* The classification table of the curatorial classifier.
ClassificationTable ==
    [community |-> <<"situated", "community_archive">>,
     academic  |-> <<"academic", "academic_research">>,
     media     |-> <<"media", "media_discourse">>,
     archival  |-> <<"archival", "historical_archive">>,
     general   |-> <<"situated", "local_knowledge">>]

\* The segments of a path string that name something: not "" and not ".".
NamedSegments(file_path) == SelectSeq(file_path, LAMBDA seg : seg # "" /\ seg # ".")

\* The path is written relative to the working directory and leads through
\* the corpus root into the named first folder.
UnderRootIn(file_path, folder) ==
    /\ ~(Len(file_path) > 1 /\ file_path[1] = "")
    /\ Len(NamedSegments(file_path)) >= 2
    /\ NamedSegments(file_path)[1] = "knowledge_base"
    /\ NamedSegments(file_path)[2] = folder

\* C20: source classification is a total fixed mapping.  A path under the
\* corpus root whose first segment is community, academic, media or
\* archival gets that source_type with the table's authority/origin pair;
\* every other path (other first segment, outside the root, empty) gets
\* general with situated/local_knowledge; every path gets an answer.
C20_TotalClassification ==
    meta_call.op = "curate_document" =>
        LET r == meta_call.returned
            expected == IF \E t \in {"community", "academic", "media", "archival"} :
                               UnderRootIn(meta_call.file_path, t)
                        THEN NamedSegments(meta_call.file_path)[2]
                        ELSE "general"
        IN /\ r.source_type = expected
           /\ <<r.authority_level, r.epistemic_origin>> = ClassificationTable[expected]

\* A document in the archival folder, its path written with the leading
\* "./" of the root, has been classified archival / historical_archive.
C20_Witness ==
    /\ meta_call.op = "curate_document"
    /\ meta_call.file_path = <<".", "knowledge_base", "archival", "a.txt">>
    /\ meta_call.returned.source_type = "archival"
    /\ meta_call.returned.epistemic_origin = "historical_archive"

\* C13: validate_metadata raises, rejecting the record, whenever the record
\* supplies an authority_level outside the five known values.
C13_RejectsOutOfVocabulary ==
    (/\ meta_call.op = "validate_metadata"
     /\ "authority_level" \in DOMAIN meta_call.metadata
     /\ meta_call.metadata["authority_level"]
           \notin {"situated", "academic", "institutional", "media", "archival"})
    => meta_call.raised

\* =========================================================================
\* DiscourseAwareChunker.  A text is the sequence of its characters; a
\* pattern of the cue lists is a literal, found by re.search wherever it
\* occurs in the text, inside a longer word too; the narrative markers are
\* written between \b and match whole words only.
\* =========================================================================
MaxWords == 2
MaxTextLen == 6

UpperCase ==
    [A |-> "a", B |-> "b", C |-> "c", D |-> "d", E |-> "e", F |-> "f", G |-> "g",
     H |-> "h", I |-> "i", J |-> "j", K |-> "k", L |-> "l", M |-> "m", N |-> "n",
     O |-> "o", P |-> "p", Q |-> "q", R |-> "r", S |-> "s", T |-> "t", U |-> "u",
     V |-> "v", W |-> "w", X |-> "x", Y |-> "y", Z |-> "z"]

\* str.lower()
Lower(text) ==
    [i \in DOMAIN text |-> IF text[i] \in DOMAIN UpperCase THEN UpperCase[text[i]] ELSE text[i]]

\* The characters \b counts as part of a word, in a lowered text.
WordChars ==
    {UpperCase[c] : c \in DOMAIN UpperCase}
    \cup {"0", "1", "2", "3", "4", "5", "6", "7", "8", "9", "_"}

\* The literal occurs in the text at position i.
OccursAt(literal, text, i) ==
    /\ i + Len(literal) - 1 <= Len(text)
    /\ SubSeq(text, i, i + Len(literal) - 1) = literal

\* re.search(literal, text)
Search(literal, text) == \E i \in 1..Len(text) : OccursAt(literal, text, i)

\* re.search(r'\bword\b', text)
SearchWord(word, text) ==
    \E i \in 1..Len(text) :
        /\ OccursAt(word, text, i)
        /\ i > 1 => text[i - 1] \notin WordChars
        /\ i + Len(word) <= Len(text) => text[i + Len(word)] \notin WordChars

QUESTION_PATTERNS ==
    {<<"b", "a", "g", "a", "i", "m", "a", "n", "a">>,
     <<"m", "e", "n", "g", "a", "p", "a">>,
     <<"a", "p", "a">>,
     <<"s", "i", "a", "p", "a">>,
     <<"k", "a", "p", "a", "n">>,
     <<"d", "i", "m", "a", "n", "a">>,
     <<"h", "o", "w">>,
     <<"w", "h", "y">>,
     <<"w", "h", "a", "t">>,
     <<"w", "h", "o">>,
     <<"w", "h", "e", "n">>,
     <<"w", "h", "e", "r", "e">>,
     <<"?">>}

DEFINITION_PATTERNS ==
    {<<"a", "d", "a", "l", "a", "h">>,
     <<"m", "e", "r", "u", "p", "a", "k", "a", "n">>,
     <<"d", "i", "d", "e", "f", "i", "n", "i", "s", "i", "k", "a", "n">>,
     <<"i", "s", " ", "d", "e", "f", "i", "n", "e", "d", " ", "a", "s">>,
     <<"r", "e", "f", "e", "r", "s", " ", "t", "o">>,
     <<"m", "e", "a", "n", "s">>}

EXAMPLE_PATTERNS ==
    {<<"m", "i", "s", "a", "l", "n", "y", "a">>,
     <<"c", "o", "n", "t", "o", "h", "n", "y", "a">>,
     <<"s", "e", "b", "a", "g", "a", "i", " ", "c", "o", "n", "t", "o", "h">>,
     <<"f", "o", "r", " ", "e", "x", "a", "m", "p", "l", "e">>,
     <<"f", "o", "r", " ", "i", "n", "s", "t", "a", "n", "c", "e">>,
     <<"s", "u", "c", "h", " ", "a", "s">>}

COUNTER_PATTERNS ==
    {<<"n", "a", "m", "u", "n">>,
     <<"t", "e", "t", "a", "p", "i">>,
     <<"a", "k", "a", "n", " ", "t", "e", "t", "a", "p", "i">>,
     <<"s", "e", "b", "a", "l", "i", "k", "n", "y", "a">>,
     <<"h", "o", "w", "e", "v", "e", "r">>,
     <<"b", "u", "t">>,
     <<"n", "e", "v", "e", "r", "t", "h", "e", "l", "e", "s", "s">>,
     <<"o", "n", " ", "t", "h", "e", " ", "c", "o", "n", "t", "r", "a", "r", "y">>}

ARGUMENT_PATTERNS ==
    {<<"o", "l", "e", "h", " ", "k", "a", "r", "e", "n", "a", " ", "i", "t", "u">>,
     <<"m", "a", "k", "a">>,
     <<"d", "e", "n", "g", "a", "n", " ", "d", "e", "m", "i", "k", "i", "a", "n">>,
     <<"t", "h", "e", "r", "e", "f", "o", "r", "e">>,
     <<"t", "h", "u", "s">>,
     <<"c", "o", "n", "s", "e", "q", "u", "e", "n", "t", "l", "y">>}

narrative_markers ==
    {<<"t", "e", "l", "a", "h">>,
     <<"p", "e", "r", "n", "a", "h">>,
     <<"d", "a", "h", "u", "l", "u">>,
     <<"h", "i", "s", "t", "o", "r", "y">>}

critical_markers ==
    {<<"m", "a", "s", "a", "l", "a", "h">>,
     <<"k", "r", "i", "t", "i", "k">>,
     <<"p", "r", "o", "b", "l", "e", "m">>,
     <<"i", "s", "s", "u", "e">>,
     <<"c", "o", "n", "c", "e", "r", "n">>,
     <<"t", "i", "d", "a", "k">>,
     <<"b", "u", "k", "a", "n">>,
     <<"n", "o", "t">>,
     <<"n", "e", "v", "e", "r">>}

supportive_markers ==
    {<<"m", "e", "n", "d", "u", "k", "u", "n", "g">>,
     <<"s", "e", "t", "u", "j", "u">>,
     <<"p", "o", "s", "i", "t", "i", "f">>,
     <<"s", "u", "p", "p", "o", "r", "t">>,
     <<"a", "g", "r", "e", "e">>,
     <<"b", "a", "i", "k">>,
     <<"g", "o", "o", "d">>,
     <<"b", "e", "n", "e", "f", "i", "c", "i", "a", "l">>}

AnySearch(patterns, text) == \E pattern \in patterns : Search(pattern, text)

\* A classifier that looks for counter-argument cues first.
classify_chunk_role_counter_first(chunk_text) ==
    CASE AnySearch(COUNTER_PATTERNS, Lower(chunk_text)) -> "counter_argument"
      [] AnySearch(QUESTION_PATTERNS, Lower(chunk_text)) -> "question"
      [] AnySearch(DEFINITION_PATTERNS, Lower(chunk_text)) -> "definition"
      [] AnySearch(EXAMPLE_PATTERNS, Lower(chunk_text)) -> "example"
      [] AnySearch(ARGUMENT_PATTERNS, Lower(chunk_text)) -> "argument"
      [] \E m \in narrative_markers : SearchWord(m, Lower(chunk_text)) -> "narrative"
      [] OTHER -> "unknown"

\* The if-chain of classify_chunk_role: the first test that succeeds
\* returns.
classify_chunk_role(chunk_text) ==
    IF AnySearch(QUESTION_PATTERNS, Lower(chunk_text)) THEN "question"
    ELSE IF AnySearch(DEFINITION_PATTERNS, Lower(chunk_text)) THEN "definition"
    ELSE IF AnySearch(EXAMPLE_PATTERNS, Lower(chunk_text)) THEN "example"
    ELSE IF AnySearch(COUNTER_PATTERNS, Lower(chunk_text)) THEN "counter_argument"
    ELSE IF AnySearch(ARGUMENT_PATTERNS, Lower(chunk_text)) THEN "argument"
    ELSE IF \E m \in narrative_markers : SearchWord(m, Lower(chunk_text)) THEN "narrative"
    ELSE "unknown"

\* sum(1 for pattern in markers if re.search(pattern, text_lower))
MarkerCount(markers, text_lower) ==
    Cardinality({pattern \in markers : Search(pattern, text_lower)})

\* A stance taken from the lexicon counts alone.
detect_discourse_position_by_counts(chunk_text, chunk_role) ==
    IF MarkerCount(critical_markers, Lower(chunk_text))
          > MarkerCount(supportive_markers, Lower(chunk_text)) THEN "critical"
    ELSE IF MarkerCount(supportive_markers, Lower(chunk_text))
               > MarkerCount(critical_markers, Lower(chunk_text)) THEN "supportive"
    ELSE "neutral"

detect_discourse_position(chunk_text, chunk_role) ==
    IF chunk_role = "counter_argument" THEN "critical"
    ELSE IF chunk_role = "question" THEN "questioning"
    ELSE IF MarkerCount(critical_markers, Lower(chunk_text))
               > MarkerCount(supportive_markers, Lower(chunk_text)) THEN "critical"
    ELSE IF MarkerCount(supportive_markers, Lower(chunk_text))
               > MarkerCount(critical_markers, Lower(chunk_text)) THEN "supportive"
    ELSE "neutral"

\* The words texts are made of; none holds a theme keyword or a citation.
Vocabulary ==
    {<<"a", "p", "a">>,
     <<"a", "d", "a", "l", "a", "h">>,
     <<"m", "i", "s", "a", "l", "n", "y", "a">>,
     <<"n", "a", "m", "u", "n">>,
     <<"m", "a", "k", "a">>,
     <<"t", "e", "l", "a", "h">>,
     <<"s", "e", "t", "e", "l", "a", "h">>,
     <<"m", "a", "s", "a", "l", "a", "h">>,
     <<"t", "i", "d", "a", "k">>,
     <<"b", "a", "i", "k">>,
     <<"S", "e", "t", "u", "j", "u">>}

\* " ".join(words)
RECURSIVE Join(_)
Join(words) ==
    IF words = <<>> THEN <<>>
    ELSE IF Len(words) = 1 THEN words[1]
    ELSE words[1] \o <<" ">> \o Join(Tail(words))

WordLists == UNION {[1..n -> Vocabulary] : n \in 0..MaxWords}

Whitespace == {" ", "\n"}

\* str.strip()
strip(text) ==
    LET kept == {i \in DOMAIN text : text[i] \notin Whitespace}
    IN IF kept = {} THEN <<>>
       ELSE SubSeq(text, CHOOSE i \in kept : \A j \in kept : i <= j,
                         CHOOSE i \in kept : \A j \in kept : j <= i)

\* The places where a paragraph break "\n\n" starts.
Breaks(text) ==
    {i \in DOMAIN text : i < Len(text) /\ text[i] = "\n" /\ text[i + 1] = "\n"}

\* text.split('\n\n'): cut at the leftmost break, then split the rest.
RECURSIVE split(_)
split(text) ==
    IF Breaks(text) = {} THEN <<text>>
    ELSE <<SubSeq(text, 1, (CHOOSE i \in Breaks(text) : \A j \in Breaks(text) : i <= j) - 1)>>
         \o split(SubSeq(text, (CHOOSE i \in Breaks(text) : \A j \in Breaks(text) : i <= j) + 2,
                         Len(text)))

\* One paragraph of the loop of semantic_split; acc is [chunks,
\* current_chunk], para the paragraph after strip().
AddParagraph(acc, para, chunk_size) ==
    IF para = <<>> THEN acc
    ELSE IF Len(acc.current_chunk) + Len(para) > chunk_size /\ acc.current_chunk # <<>>
    THEN [chunks |-> Append(acc.chunks, strip(acc.current_chunk)), current_chunk |-> para]
    ELSE IF acc.current_chunk # <<>>
    THEN [acc EXCEPT !.current_chunk = @ \o <<"\n", "\n">> \o para]
    ELSE [acc EXCEPT !.current_chunk = para]

RECURSIVE SplitLoop(_, _, _)
SplitLoop(acc, paragraphs, chunk_size) ==
    IF paragraphs = <<>> THEN acc
    ELSE SplitLoop(AddParagraph(acc, strip(Head(paragraphs)), chunk_size),
                   Tail(paragraphs), chunk_size)

\* The remaining chunk is added; without any chunk the text is all
\* whitespace, of which the basic splitter makes no chunk either.
SplitDone(acc) ==
    IF acc.current_chunk # <<>>
    THEN Append(acc.chunks, strip(acc.current_chunk))
    ELSE acc.chunks

semantic_split(text, chunk_size) ==
    SplitDone(SplitLoop([chunks |-> <<>>, current_chunk |-> <<>>], split(text), chunk_size))

\* chunk_metadata = doc.metadata.copy(); .update(chunk_index and the
\* discourse tags); .update(curatorial_metadata) when one is given.  A
\* dictionary that is not given is the empty one.
chunk_metadata(doc_metadata, i, discourse_meta, curatorial_metadata) ==
    Update(Update(doc_metadata, [chunk_index |-> i] @@ discourse_meta), curatorial_metadata)

\* The discourse tags of a chunk whose text holds no theme keyword and no
\* citation.
Classify(chunk_text) ==
    [chunk_role |-> classify_chunk_role(chunk_text),
     discourse_position |->
         detect_discourse_position(chunk_text, classify_chunk_role(chunk_text)),
     themes |-> PyList(<<>>), has_citation |-> FALSE]

\* The inner loop of chunk_with_discourse for one document.
chunk_document_with_discourse(doc, curatorial_metadata, chunk_size) ==
    [i \in DOMAIN semantic_split(doc.page_content, chunk_size) |->
        [page_content |-> semantic_split(doc.page_content, chunk_size)[i],
         metadata |-> chunk_metadata(doc.metadata, i - 1,
                                     Classify(semantic_split(doc.page_content, chunk_size)[i]),
                                     curatorial_metadata)]]

\* -------------------------------------------------------------------------
\* The chunker called on its own: one pending call, drawn by Init, which the
\* matching action carries out.
\* -------------------------------------------------------------------------
CHUNK_SIZE == 1000

Roles ==
    {"question", "definition", "example", "counter_argument", "argument", "narrative",
     "unknown"}

\* Texts of paragraphs and breaks, short enough to enumerate.
ParagraphTexts == UNION {[1..n -> {"a", " ", "\n"}] : n \in 0..MaxTextLen}

\* Page contents: up to two words, or two one-word paragraphs.
PageContents ==
    {Join(w) : w \in {l \in WordLists : Len(l) <= 2}}
    \cup {v \o <<"\n", "\n">> \o w : v \in Vocabulary, w \in Vocabulary}

\* What curate_document gives a file of the community directory.
CommunityCuratorial ==
    [source_type |-> "community", authority_level |-> "situated",
     epistemic_origin |-> "local_knowledge"]

DocMetadatas ==
    {[source |-> "notes.txt"],
     [source |-> "notes.txt", authority_level |-> "academic", chunk_role |-> "narrative"]}

CuratorialMetadatas ==
    {<<>>, CommunityCuratorial,
     [source_type |-> "community", chunk_role |-> "argument",
      discourse_position |-> "supportive"]}

ChunkerCalls ==
    {[op |-> "pending", fn |-> "classify_chunk_role", chunk_text |-> Join(w)] :
        w \in WordLists}
    \cup {[op |-> "pending", fn |-> "detect_discourse_position", chunk_text |-> Join(w),
           chunk_role |-> r] : w \in WordLists, r \in Roles}
    \cup {[op |-> "pending", fn |-> "semantic_split", text |-> t, chunk_size |-> n] :
             t \in ParagraphTexts, n \in {2, 3}}
    \cup {[op |-> "pending", fn |-> "chunk_with_discourse",
           doc |-> [page_content |-> t, metadata |-> m],
           curatorial_metadata |-> c, chunk_size |-> n] :
             t \in PageContents, m \in DocMetadatas, c \in CuratorialMetadatas,
             n \in {8, CHUNK_SIZE}}

\* Nothing stored, nothing retrieved, no ingestion.
RestIdleButMeta ==
    /\ db = EmptyDb
    /\ stored = <<>>
    /\ ret = [op |-> "none"]
    /\ writer = [w \in Writers |-> IdleWriter]
    /\ lock = NoWriter
    /\ reader = IdleReader
    /\ cands = <<>>
    /\ out = [op |-> "none"]
    /\ vindex = <<>>
    /\ call = [op |-> "none"]
    /\ self_verbose = FALSE

ChunkerInit ==
    /\ RestIdleButMeta
    /\ meta_call = [op |-> "none"]
    /\ chunker_call \in ChunkerCalls
    /\ submissions = <<>>
    /\ background_tasks = <<>>
    /\ response = [op |-> "none"]

ClassifyChunkRole ==
    /\ chunker_call.op = "pending"
    /\ chunker_call.fn = "classify_chunk_role"
    /\ chunker_call' = [op |-> "classify_chunk_role", chunk_text |-> chunker_call.chunk_text,
                        returned |-> classify_chunk_role(chunker_call.chunk_text)]
    /\ UNCHANGED <<storeVars, retrievalVars, pipelineVars, curationVars>>

DetectDiscoursePosition ==
    /\ chunker_call.op = "pending"
    /\ chunker_call.fn = "detect_discourse_position"
    /\ chunker_call' = [op |-> "detect_discourse_position",
                        chunk_text |-> chunker_call.chunk_text,
                        chunk_role |-> chunker_call.chunk_role,
                        returned |-> detect_discourse_position(chunker_call.chunk_text,
                                                               chunker_call.chunk_role)]
    /\ UNCHANGED <<storeVars, retrievalVars, pipelineVars, curationVars>>

SemanticSplit ==
    /\ chunker_call.op = "pending"
    /\ chunker_call.fn = "semantic_split"
    /\ chunker_call' = [op |-> "semantic_split", text |-> chunker_call.text,
                        chunk_size |-> chunker_call.chunk_size,
                        returned |-> semantic_split(chunker_call.text,
                                                    chunker_call.chunk_size)]
    /\ UNCHANGED <<storeVars, retrievalVars, pipelineVars, curationVars>>

\* chunk_with_discourse([doc], curatorial_metadata); the dictionaries handed
\* in are read only (doc.metadata is copied before the updates), so they
\* are afterwards what they were.
ChunkWithDiscourse ==
    /\ chunker_call.op = "pending"
    /\ chunker_call.fn = "chunk_with_discourse"
    /\ chunker_call' = [op |-> "chunk_with_discourse", doc |-> chunker_call.doc,
                        curatorial_metadata |-> chunker_call.curatorial_metadata,
                        chunk_size |-> chunker_call.chunk_size,
                        doc_metadata_after |-> chunker_call.doc.metadata,
                        curatorial_metadata_after |-> chunker_call.curatorial_metadata,
                        returned |-> chunk_document_with_discourse(
                                         chunker_call.doc, chunker_call.curatorial_metadata,
                                         chunker_call.chunk_size)]
    /\ UNCHANGED <<storeVars, retrievalVars, pipelineVars, curationVars>>

ChunkerNext ==
    ClassifyChunkRole \/ DetectDiscoursePosition \/ SemanticSplit \/ ChunkWithDiscourse

SpecChunker == ChunkerInit /\ [][ChunkerNext]_vars

\* The categories in the order of their priority, and the cue test of each.
RolePriority ==
    <<"question", "definition", "example", "counter_argument", "argument", "narrative">>

CueMatches(role, text) ==
    CASE role = "question" -> AnySearch(QUESTION_PATTERNS, Lower(text))
      [] role = "definition" -> AnySearch(DEFINITION_PATTERNS, Lower(text))
      [] role = "example" -> AnySearch(EXAMPLE_PATTERNS, Lower(text))
      [] role = "counter_argument" -> AnySearch(COUNTER_PATTERNS, Lower(text))
      [] role = "argument" -> AnySearch(ARGUMENT_PATTERNS, Lower(text))
      [] role = "narrative" -> \E m \in narrative_markers : SearchWord(m, Lower(text))

MatchingRanks(text) == {i \in DOMAIN RolePriority : CueMatches(RolePriority[i], text)}

\* C21: classify_chunk_role returns one label: the first category, in the
\* order question, definition, example, counter_argument, argument,
\* narrative, whose cue set matches the chunk, and unknown when none does.
C21_RoleByPriority ==
    chunker_call.op = "classify_chunk_role" =>
        /\ chunker_call.returned \in Roles
        /\ MatchingRanks(chunker_call.chunk_text) = {}
              => chunker_call.returned = "unknown"
        /\ \A i \in MatchingRanks(chunker_call.chunk_text) :
              (\A j \in MatchingRanks(chunker_call.chunk_text) : i <= j)
                 => chunker_call.returned = RolePriority[i]

\* "namun adalah": cues of two categories, labelled definition.
C21_Witness ==
    /\ chunker_call.op = "classify_chunk_role"
    /\ MatchingRanks(chunker_call.chunk_text) = {2, 4}
    /\ chunker_call.returned = "definition"

\* C22: detect_discourse_position returns critical for the role
\* counter_argument and questioning for the role question, whatever the
\* counts; otherwise critical when more critical than supportive markers
\* match, supportive when fewer, neutral on a tie.  A chunk of a community
\* text that holds "namun" and "masalah" and no question, definition or
\* example cue is tagged counter_argument and critical.
C22_StanceClassification ==
    /\ chunker_call.op = "detect_discourse_position" =>
          chunker_call.returned =
             CASE chunker_call.chunk_role = "counter_argument" -> "critical"
               [] chunker_call.chunk_role = "question" -> "questioning"
               [] OTHER ->
                    CASE MarkerCount(critical_markers, Lower(chunker_call.chunk_text))
                            > MarkerCount(supportive_markers, Lower(chunker_call.chunk_text))
                            -> "critical"
                      [] MarkerCount(critical_markers, Lower(chunker_call.chunk_text))
                            < MarkerCount(supportive_markers, Lower(chunker_call.chunk_text))
                            -> "supportive"
                      [] OTHER -> "neutral"
    /\ (/\ chunker_call.op = "chunk_with_discourse"
        /\ chunker_call.curatorial_metadata = CommunityCuratorial)
       => \A i \in DOMAIN chunker_call.returned :
             (/\ Search(<<"n", "a", "m", "u", "n">>, Lower(chunker_call.returned[i].page_content))
              /\ Search(<<"m", "a", "s", "a", "l", "a", "h">>,
                        Lower(chunker_call.returned[i].page_content))
              /\ MatchingRanks(chunker_call.returned[i].page_content) \cap {1, 2, 3} = {})
             => /\ chunker_call.returned[i].metadata["chunk_role"] = "counter_argument"
                /\ chunker_call.returned[i].metadata["discourse_position"] = "critical"

\* The community text "namun masalah", chunked: counter_argument, critical.
C22_Witness ==
    /\ chunker_call.op = "chunk_with_discourse"
    /\ chunker_call.curatorial_metadata = CommunityCuratorial
    /\ chunker_call.doc.page_content = Join(<<<<"n", "a", "m", "u", "n">>,
                                              <<"m", "a", "s", "a", "l", "a", "h">>>>)
    /\ Len(chunker_call.returned) = 1
    /\ chunker_call.returned[1].metadata["chunk_role"] = "counter_argument"
    /\ chunker_call.returned[1].metadata["discourse_position"] = "critical"
    /\ chunker_call.returned[1].metadata["source_type"] = "community"

\* A counter-argument with more supportive than critical markers ("namun
\* baik") is critical all the same.
C22_WitnessRoleOverCounts ==
    /\ chunker_call.op = "detect_discourse_position"
    /\ chunker_call.chunk_role = "counter_argument"
    /\ MarkerCount(supportive_markers, Lower(chunker_call.chunk_text))
          > MarkerCount(critical_markers, Lower(chunker_call.chunk_text))
    /\ chunker_call.returned = "critical"

\* The non-empty paragraphs of a text, stripped, in order.
RECURSIVE NonEmptyStripped(_)
NonEmptyStripped(paragraphs) ==
    IF paragraphs = <<>> THEN <<>>
    ELSE IF strip(Head(paragraphs)) = <<>> THEN NonEmptyStripped(Tail(paragraphs))
    ELSE <<strip(Head(paragraphs))>> \o NonEmptyStripped(Tail(paragraphs))

\* The paragraphs of a list of chunks, chunk after chunk.
RECURSIVE ParagraphsOfChunks(_)
ParagraphsOfChunks(chunks) ==
    IF chunks = <<>> THEN <<>>
    ELSE split(Head(chunks)) \o ParagraphsOfChunks(Tail(chunks))

\* C27: every chunk of semantic_split that holds more than one paragraph has
\* length at most chunk_size, and the non-empty paragraphs of the input
\* appear each in exactly one chunk, in input order.
C27_SizeBudgetAndNothingLost ==
    chunker_call.op = "semantic_split" =>
        /\ \A i \in DOMAIN chunker_call.returned :
              Breaks(chunker_call.returned[i]) # {}
                 => Len(chunker_call.returned[i]) <= chunker_call.chunk_size
        /\ ParagraphsOfChunks(chunker_call.returned)
              = NonEmptyStripped(split(chunker_call.text))

\* The second half of C27 alone: no paragraph is lost, repeated or moved.
C27_NothingLost ==
    chunker_call.op = "semantic_split" =>
        ParagraphsOfChunks(chunker_call.returned) = NonEmptyStripped(split(chunker_call.text))

\* =========================================================================
\* MetadataEnricher: the overlay of metadata sources and the storage format
\* of list values.  A dictionary that is not given (None) is the empty one:
\* both are skipped by `if curatorial_metadata:`; a content that is not
\* given is the empty text.
\* =========================================================================
SENSITIVITY_KEYWORDS ==
    [high |-> {<<"k", "o", "n", "f", "l", "i", "k">>,
              <<"k", "e", "k", "e", "r", "a", "s", "a", "n">>,
              <<"d", "i", "s", "k", "r", "i", "m", "i", "n", "a", "s", "i">>,
              <<"v", "i", "o", "l", "e", "n", "c", "e">>,
              <<"d", "i", "s", "c", "r", "i", "m", "i", "n", "a", "t", "i", "o", "n">>,
              <<"p", "o", "l", "i", "t", "i", "k">>,
              <<"p", "o", "l", "i", "t", "i", "c", "a", "l">>,
              <<"k", "o", "n", "t", "r", "o", "v", "e", "r", "s", "i", "a", "l">>,
              <<"c", "o", "n", "t", "r", "o", "v", "e", "r", "s", "i", "a", "l">>},
     medium |-> {<<"k", "r", "i", "t", "i", "k">>,
                <<"d", "e", "b", "a", "t">>,
                <<"c", "r", "i", "t", "i", "q", "u", "e">>,
                <<"d", "e", "b", "a", "t", "e">>,
                <<"p", "o", "l", "e", "m", "i", "k">>}]

\* sum(1 for keyword in keywords if keyword in content_lower)
KeywordCount(keywords, content_lower) ==
    Cardinality({keyword \in keywords : Search(keyword, content_lower)})

infer_sensitivity(content) ==
    IF KeywordCount(SENSITIVITY_KEYWORDS.high, Lower(content)) >= 2 THEN "high"
    ELSE IF KeywordCount(SENSITIVITY_KEYWORDS.medium, Lower(content)) >= 2 THEN "medium"
    ELSE "standard"

\* The defaults of the required fields (related_nodes, an empty list, is
\* written as the key-value table will hold it, by its str() image).
defaults ==
    [themes |-> PyList(<<>>), related_nodes |-> "[]", discourse_position |-> "neutral",
     chunk_role |-> "unknown", language |-> "id", region |-> "nusantara",
     sensitivity |-> "standard", ingest_policy |-> "cultural", has_citation |-> FALSE]

\* enrich_metadata: a copy of base, updated by curatorial, then by
\* discourse; sensitivity inferred from a content when no source gives it;
\* the time stamp and the defaults for the keys still missing.
enrich_metadata(base_metadata, curatorial_metadata, discourse_metadata, content) ==
    Update(Update(base_metadata, curatorial_metadata), discourse_metadata)
       @@ (IF content # <<>> THEN [sensitivity |-> infer_sensitivity(content)] ELSE <<>>)
       @@ [ingested_at |-> "2026-11-03T00:00:00"]
       @@ defaults

ListKeys == {"themes", "related_nodes"}

\* json.dumps of a list of strings: "[", the literals with "," between, "]".
RECURSIVE JsonItems(_)
JsonItems(list) ==
    IF list = <<>> THEN <<>>
    ELSE IF Len(list) = 1 THEN <<list[1]>>
    ELSE <<list[1], ",">> \o JsonItems(Tail(list))

json_dumps(list) == <<"[">> \o JsonItems(list) \o <<"]">>

to_storage_format(metadata) ==
    [key \in DOMAIN metadata |->
        IF key \in ListKeys /\ metadata[key].type = "list"
        THEN PyStr(json_dumps(metadata[key].val))
        ELSE metadata[key]]

\* try: json.loads(text) except: [].  A text that is one literal is valid
\* JSON too and loads as the value it denotes, which is no list.
loads_or_empty(toks) ==
    IF json_loads(toks).ok THEN PyList(json_loads(toks).val)
    ELSE IF Len(toks) = 1 /\ toks[1] \notin JsonPunct THEN [type |-> "scalar", val |-> toks]
    ELSE PyList(<<>>)

from_storage_format(metadata) ==
    [key \in DOMAIN metadata |->
        IF key \in ListKeys /\ metadata[key].type = "str"
        THEN loads_or_empty(metadata[key].val)
        ELSE metadata[key]]

\* ------------------------------------------------------------ the inputs
EnrichBases ==
    {[source |-> "notes.txt"],
     [source |-> "notes.txt", authority_level |-> "academic", chunk_role |-> "narrative",
      sensitivity |-> "high"]}

EnrichCuratorials ==
    {<<>>, CommunityCuratorial,
     [authority_level |-> "situated", chunk_role |-> "argument",
      discourse_position |-> "supportive"]}

EnrichDiscourses ==
    {<<>>,
     [chunk_role |-> "question", discourse_position |-> "questioning",
      themes |-> PyList(<<"technology">>), has_citation |-> TRUE]}

EnrichContents ==
    {<<>>, <<"t", "e", "k", "s">>,
     <<"K", "o", "n", "f", "l", "i", "k", " ", "p", "o", "l", "i", "t", "i", "k">>,
     <<"k", "r", "i", "t", "i", "k", " ", "d", "e", "b", "a", "t">>}

ThemeValues == {<<>>, <<"technology">>, <<"technology", "colonialism">>}

\* Records whose themes and related_nodes, where present, are lists.
ListMetas ==
    {[title |-> "t"]}
    \cup {[title |-> "t", themes |-> PyList(t)] : t \in ThemeValues}
    \cup {[title |-> "t", themes |-> PyList(t), related_nodes |-> PyList(r)] :
             t \in ThemeValues, r \in {<<>>, <<"n1">>, <<"n1", "n2">>}}

\* The texts a stored string can be: a list, a list cut short, a single
\* literal, a stray bracket, nothing.
StoredTexts ==
    {<<"[", "]">>, <<"[", "technology", ",", "colonialism", "]">>, <<"[", "colonialism">>,
     <<"colonialism">>, <<"]">>, <<>>}

StoredMetas ==
    {[title |-> "t", themes |-> PyStr(t)] : t \in StoredTexts}
    \cup {[title |-> "t", themes |-> PyList(<<"technology">>), related_nodes |-> PyStr(r)] :
             r \in StoredTexts}

MetadataInit ==
    /\ RestIdleButMeta
    /\ meta_call \in
          {[op |-> "pending", fn |-> "curate_document", file_path |-> f, content |-> c] :
              f \in FilePaths, c \in Contents}
          \cup {[op |-> "pending", fn |-> "validate_metadata", metadata |-> m] :
                   m \in ValidationInputs}
          \cup {[op |-> "pending", fn |-> "enrich_metadata", base_metadata |-> b,
                 curatorial_metadata |-> c, discourse_metadata |-> d, content |-> t] :
                   b \in EnrichBases, c \in EnrichCuratorials, d \in EnrichDiscourses,
                   t \in EnrichContents}
          \cup {[op |-> "pending", fn |-> "to_storage_format", metadata |-> m] :
                   m \in ListMetas}
          \cup {[op |-> "pending", fn |-> "from_storage_format", metadata |-> m] :
                   m \in StoredMetas}
    /\ MoreIdle

\* enrich_metadata works on a copy of base and only reads the other two:
\* the dictionaries handed in are afterwards what they were.
EnrichMetadata ==
    /\ meta_call.op = "pending"
    /\ meta_call.fn = "enrich_metadata"
    /\ meta_call' = [op |-> "enrich_metadata", base_metadata |-> meta_call.base_metadata,
                     curatorial_metadata |-> meta_call.curatorial_metadata,
                     discourse_metadata |-> meta_call.discourse_metadata,
                     content |-> meta_call.content,
                     base_metadata_after |-> meta_call.base_metadata,
                     curatorial_metadata_after |-> meta_call.curatorial_metadata,
                     discourse_metadata_after |-> meta_call.discourse_metadata,
                     returned |-> enrich_metadata(meta_call.base_metadata,
                                                  meta_call.curatorial_metadata,
                                                  meta_call.discourse_metadata,
                                                  meta_call.content)]
    /\ UNCHANGED <<moreVars, storeVars, retrievalVars, vindex, call, self_verbose>>

ToStorageFormat ==
    /\ meta_call.op = "pending"
    /\ meta_call.fn = "to_storage_format"
    /\ meta_call' = [op |-> "to_storage_format", metadata |-> meta_call.metadata,
                     returned |-> to_storage_format(meta_call.metadata)]
    /\ UNCHANGED <<moreVars, storeVars, retrievalVars, vindex, call, self_verbose>>

\* from_storage_format, of a stored record or of what to_storage_format
\* has just returned (`original` is then the record that was serialized).
FromStorageFormat ==
    /\ \/ /\ meta_call.op = "pending"
          /\ meta_call.fn = "from_storage_format"
          /\ meta_call' = [op |-> "from_storage_format", metadata |-> meta_call.metadata,
                           round_trip |-> FALSE, original |-> meta_call.metadata,
                           returned |-> from_storage_format(meta_call.metadata)]
       \/ /\ meta_call.op = "to_storage_format"
          /\ meta_call' = [op |-> "from_storage_format", metadata |-> meta_call.returned,
                           round_trip |-> TRUE, original |-> meta_call.metadata,
                           returned |-> from_storage_format(meta_call.returned)]
    /\ UNCHANGED <<moreVars, storeVars, retrievalVars, vindex, call, self_verbose>>

MetadataNext ==
    \/ CurateDocument
    \/ ValidateMetadata
    \/ EnrichMetadata
    \/ ToStorageFormat
    \/ FromStorageFormat

SpecMetadata == MetadataInit /\ [][MetadataNext]_vars

\* The value an overlay in the order base, curatorial, discourse leaves
\* under a key: that of the last source that has the key.
OverlayValue(key, base, curatorial, discourse) ==
    IF key \in DOMAIN discourse THEN discourse[key]
    ELSE IF key \in DOMAIN curatorial THEN curatorial[key]
    ELSE base[key]

OverlayHolds(result, base, curatorial, discourse) ==
    \A key \in DOMAIN base \cup DOMAIN curatorial \cup DOMAIN discourse :
        /\ key \in DOMAIN result
        /\ result[key] = OverlayValue(key, base, curatorial, discourse)

\* The discourse tags chunk_with_discourse computes for its i-th chunk.
TagsOfChunk(chunks, i) == [chunk_index |-> i - 1] @@ Classify(chunks[i].page_content)

\* The enrich_metadata half of C23.
C23_EnrichOverlay ==
    meta_call.op = "enrich_metadata" =>
        /\ OverlayHolds(meta_call.returned, meta_call.base_metadata,
                        meta_call.curatorial_metadata, meta_call.discourse_metadata)
        /\ meta_call.base_metadata_after = meta_call.base_metadata
        /\ meta_call.curatorial_metadata_after = meta_call.curatorial_metadata
        /\ meta_call.discourse_metadata_after = meta_call.discourse_metadata

\* A call of enrich_metadata in which all three sources give chunk_role.
C23_EnrichCollision ==
    /\ meta_call.op = "enrich_metadata"
    /\ "chunk_role" \in DOMAIN meta_call.base_metadata
    /\ "chunk_role" \in DOMAIN meta_call.curatorial_metadata
    /\ "chunk_role" \in DOMAIN meta_call.discourse_metadata
    /\ meta_call.returned["chunk_role"] = meta_call.discourse_metadata["chunk_role"]

\* C23: where base metadata, curatorial metadata and discourse tags are
\* merged (enrich_metadata, chunk_with_discourse), on a key collision the
\* discourse value wins over the curatorial value, which wins over the base
\* value; a key of one source only is carried through, and the dictionaries
\* handed in are not modified.
C23_OverlayPrecedence ==
    /\ C23_EnrichOverlay
    /\ chunker_call.op = "chunk_with_discourse" =>
          /\ \A i \in DOMAIN chunker_call.returned :
                OverlayHolds(chunker_call.returned[i].metadata, chunker_call.doc.metadata,
                             chunker_call.curatorial_metadata,
                             TagsOfChunk(chunker_call.returned, i))
          /\ chunker_call.doc_metadata_after = chunker_call.doc.metadata
          /\ chunker_call.curatorial_metadata_after = chunker_call.curatorial_metadata

\* What chunk_with_discourse does: curatorial over discourse over base.
C23_ChunkerCuratorialLast ==
    chunker_call.op = "chunk_with_discourse" =>
        \A i \in DOMAIN chunker_call.returned :
            OverlayHolds(chunker_call.returned[i].metadata, chunker_call.doc.metadata,
                         TagsOfChunk(chunker_call.returned, i),
                         chunker_call.curatorial_metadata)

\* The text is what json.dumps makes of some list.
IsListSerialization(toks) == json_loads(toks).ok /\ json_dumps(json_loads(toks).val) = toks

\* The first half of C24: lists survive the round trip.
C24_RoundTrip ==
    (meta_call.op = "from_storage_format" /\ meta_call.round_trip)
        => meta_call.returned = meta_call.original

\* A record with two themes and two related nodes, serialized and read back.
C24_RoundTripWitness ==
    /\ meta_call.op = "from_storage_format"
    /\ meta_call.round_trip
    /\ "related_nodes" \in DOMAIN meta_call.original
    /\ meta_call.original["themes"] = PyList(<<"technology", "colonialism">>)
    /\ meta_call.metadata["themes"] = PyStr(<<"[", "technology", ",", "colonialism", "]">>)
    /\ meta_call.returned = meta_call.original

\* C24: from_storage_format(to_storage_format(m)) = m for every record with
\* list-valued themes and related_nodes; for every string stored under
\* themes or related_nodes, from_storage_format yields a list, the empty
\* list when the string is not the serialization of a list.
C24_TolerantRoundTrip ==
    /\ C24_RoundTrip
    /\ meta_call.op = "from_storage_format" =>
          \A key \in ListKeys \cap DOMAIN meta_call.metadata :
              meta_call.metadata[key].type = "str" =>
                  /\ meta_call.returned[key].type = "list"
                  /\ ~IsListSerialization(meta_call.metadata[key].val)
                        => meta_call.returned[key] = PyList(<<>>)

\* =========================================================================
\* IngestionPipeline: dual storage.  The loaders, the curatorial gate, the
\* chunker and the enricher are taken by what they hand on (a file's chunk
\* list) and by whether they raise; `fault` names the stage that raises for
\* a file, and metaFails the vector ids for which the metadata store's
\* add_document raises for a reason outside the call (locked database, I/O).
\* The vector index assigns fresh ids: the next positions of vindex.
\* A pipeline state is [vindex, db, printed, attempts, failed, vector_ids,
\* chunked, raised]: both stores, what print() has written, the vector ids
\* handed to add_document, those for which it raised, the ids _store_dual
\* returned, per chunked source its chunk_index values, and whether an
\* exception is propagating.
\* A source file is its path, its extension, what detect_language makes of
\* its text, and per document the loader delivers for it (one per page of a
\* PDF) the number of pieces semantic_split cuts it into.
\* =========================================================================
FileA ==
    [filepath |-> <<"knowledge_base", "community", "a.txt">>, ext |-> ".txt",
     content |-> "indonesian", pages |-> <<1>>, nchunks |-> 1]

FileB ==
    [filepath |-> <<"knowledge_base", "archival", "b.pdf">>, ext |-> ".pdf",
     content |-> "indonesian", pages |-> <<1, 1>>, nchunks |-> 2]

FileU ==
    [filepath |-> <<"knowledge_base", "media", "u.csv">>, ext |-> ".csv",
     content |-> "indonesian", pages |-> <<1>>, nchunks |-> 1]

Files == {FileA, FileB, FileU}

Directories == {<<FileA, FileB>>, <<FileB, FileA>>, <<FileU, FileA>>}

Urls == {[url |-> "https://example.org/a", content |-> "other", pages |-> <<1>>, nchunks |-> 1]}

Texts == {[title |-> "untitled", pages |-> <<2>>, nchunks |-> 2]}

Faults == {"none", "load", "curate", "chunk", "enrich", "vector"}

SupportedExtensions == {".pdf", ".md", ".markdown", ".txt"}

\* settings.USE_DISCOURSE_CHUNKING
USE_DISCOURSE_CHUNKING == TRUE

\* The documents a loader delivers for a source, with the metadata the
\* entry point sets on them; source_type is the loader's format tag.
Load(src, format, category) ==
    [i \in DOMAIN src.pages |->
        [content |-> src.content, splits |-> src.pages[i],
         metadata |-> [source_type |-> format, category |-> category]]]

LoaderFormat(ext) ==
    IF ext = ".pdf" THEN "pdf" ELSE IF ext = ".txt" THEN "text" ELSE "markdown"

\* _apply_curatorial_gate: curate the path with the first document's
\* content as sample, update every document's metadata with the result.
apply_curatorial_gate(documents, file_path) ==
    [i \in DOMAIN documents |->
        [documents[i] EXCEPT !.metadata =
            Update(@, curate_document(file_path,
                                      IF documents # <<>> THEN documents[1].content ELSE ""))]]

RECURSIVE Flatten(_)
Flatten(lists) == IF lists = <<>> THEN <<>> ELSE Head(lists) \o Flatten(Tail(lists))

\* What the discourse classifiers find in a piece of text.
DiscourseMetadata ==
    [chunk_role |-> "unknown", discourse_position |-> "neutral",
     themes |-> PyList(<<>>), has_citation |-> FALSE]

\* for doc in documents: for i, chunk_text in enumerate(text_chunks): ...
\* A document's text is taken by the number of pieces semantic_split makes
\* of it, and holds no cue or marker.
chunk_with_discourse(documents, curatorial_metadata) ==
    Flatten([d \in DOMAIN documents |->
               [i \in 1..documents[d].splits |->
                  [metadata |->
                     chunk_metadata(documents[d].metadata, i - 1, DiscourseMetadata,
                                    curatorial_metadata)]]])

\* splitter.split_documents, then for i, chunk in enumerate(chunks).
chunk_documents(documents) ==
    [i \in DOMAIN Flatten([d \in DOMAIN documents |->
                             [j \in 1..documents[d].splits |-> documents[d].metadata]]) |->
        [metadata |->
            Update(Flatten([d \in DOMAIN documents |->
                              [j \in 1..documents[d].splits |-> documents[d].metadata]])[i],
                   [chunk_index |-> i - 1])]]

\* chunk_text(text, metadata): one text, chunk indices by enumerate.
chunk_text(text, metadata) ==
    chunk_documents(<<[content |-> "other", splits |-> text.pages[1], metadata |-> metadata]>>)

CuratorialKeys ==
    {"source_type", "authority_level", "epistemic_origin", "language", "region",
     "ingest_policy", "folder_path"}

\* _chunk_documents: the curatorial keys of the first document are passed
\* along to the discourse chunker.
chunk_documents_with_discourse(documents) ==
    IF USE_DISCOURSE_CHUNKING
    THEN chunk_with_discourse(documents,
             IF documents = <<>> THEN <<>>
             ELSE [k \in DOMAIN documents[1].metadata \cap CuratorialKeys |->
                      documents[1].metadata[k]])
    ELSE chunk_documents(documents)

\* The text of a chunk: it holds no sensitivity keyword.
PlainContent == <<"t", "e", "k", "s">>

\* _enrich_metadata: enrich (base and content only), then the embedding
\* version stamp.
enrich_chunks(chunks) ==
    [i \in DOMAIN chunks |->
        Update(enrich_metadata(chunks[i].metadata, <<>>, <<>>, PlainContent),
               [embedding_model |-> "minilm", embedding_version |-> "2026-11"])]

\* The enriched chunks of a file: loaded, curated by its path, chunked,
\* enriched.
ChunksOf(file) ==
    enrich_chunks(chunk_documents_with_discourse(
        apply_curatorial_gate(Load(file, LoaderFormat(file.ext), "general"), file.filepath)))

\* ingest_url: the documents of the page get category, then the media
\* literal; no curatorial gate.
UrlChunks(url) ==
    enrich_chunks(chunk_documents_with_discourse(
        [i \in DOMAIN Load(url, "web", "web") |->
            [Load(url, "web", "web")[i] EXCEPT !.metadata =
                Update(@, [source_type |-> "media", authority_level |-> "media",
                           epistemic_origin |-> "media_discourse", language |-> "en",
                           region |-> "global"])]]))

\* ingest_text: basic chunking under a literal metadata dictionary.
TextChunks(text) ==
    enrich_chunks(chunk_text(text, [title |-> text.title, category |-> "general",
                                    source_type |-> "text", authority_level |-> "situated",
                                    epistemic_origin |-> "local_knowledge"]))

\* The chunk_index values of a chunk list.
ChunkIndexes(chunks) == [i \in DOMAIN chunks |-> chunks[i].chunk_index]

PipelineState(vi, d) ==
    [vindex |-> vi, db |-> d, printed |-> <<>>, attempts |-> <<>>, failed |-> {},
     vector_ids |-> <<>>, chunked |-> <<>>, raised |-> FALSE]

\* The chunker has produced chunks for the source named subject.
Chunked(st, subject, chunks) ==
    [st EXCEPT !.chunked = Append(@, [source |-> subject, chunk_index |-> ChunkIndexes(chunks)])]

log(st, verbose, kind, subject) ==
    IF verbose
    THEN [st EXCEPT !.printed = Append(@, [kind |-> kind, subject |-> subject])]
    ELSE st

\* The except clause of the loop of _store_dual: r is what add_document did.
Guarded(tried, r, vector_id, verbose, metaFails) ==
    IF vector_id \in metaFails \/ ~r.ok
    THEN log([tried EXCEPT !.failed = @ \cup {vector_id}],
             verbose, "WARN_KNOWLEDGE_STORE", vector_id)
    ELSE [tried EXCEPT !.db = r.db]

\* One iteration of the loop of _store_dual: try add_document, on any
\* exception log a warning and go on.
StoreOne(st, vector_id, chunk, verbose, metaFails) ==
    Guarded([st EXCEPT !.attempts = Append(@, vector_id)],
            add_document(st.db, vector_id, chunk), vector_id, verbose, metaFails)

RECURSIVE StoreLoopAbort(_, _, _, _, _)
StoreLoopAbort(st, vector_ids, chunks, verbose, metaFails) ==
    IF vector_ids = <<>> \/ chunks = <<>> \/ st.failed # {}
    THEN st
    ELSE StoreLoopAbort(StoreOne(st, Head(vector_ids), Head(chunks), verbose, metaFails),
                        Tail(vector_ids), Tail(chunks), verbose, metaFails)

\* for vector_id, chunk in zip(vector_ids, chunks): ...
RECURSIVE StoreLoop(_, _, _, _, _)
StoreLoop(st, vector_ids, chunks, verbose, metaFails) ==
    IF vector_ids = <<>> \/ chunks = <<>>
    THEN st
    ELSE StoreLoop(StoreOne(st, Head(vector_ids), Head(chunks), verbose, metaFails),
                   Tail(vector_ids), Tail(chunks), verbose, metaFails)

\* vector_ids = add_documents(chunks): the index accepts the whole batch and
\* hands out the next ids, or raises.
add_documents(st, chunks) ==
    [i \in 1..Len(chunks) |-> Len(st.vindex) + i]

\* A dual store that writes the metadata rows before the index has taken
\* the batch.
store_dual_metadata_first(st, chunks, verbose, metaFails, vectorFault) ==
    IF vectorFault
    THEN [StoreLoop(log(st, verbose, "STORE", Len(chunks)),
                    add_documents(st, chunks), chunks, verbose, metaFails)
             EXCEPT !.raised = TRUE]
    ELSE StoreLoop([log(st, verbose, "STORE", Len(chunks))
                       EXCEPT !.vindex = @ \o add_documents(st, chunks),
                              !.vector_ids = @ \o add_documents(st, chunks)],
                   add_documents(st, chunks), chunks, verbose, metaFails)

store_dual(st, chunks, verbose, metaFails, vectorFault) ==
    IF vectorFault
    THEN [log(st, verbose, "STORE", Len(chunks)) EXCEPT !.raised = TRUE]
    ELSE StoreLoop([log(st, verbose, "STORE", Len(chunks))
                       EXCEPT !.vindex = @ \o add_documents(st, chunks),
                              !.vector_ids = @ \o add_documents(st, chunks)],
                   add_documents(st, chunks), chunks, verbose, metaFails)

\* Curatorial gate, chunking, enrichment, dual storage of one file's
\* documents; an exception of any stage propagates to the caller.
ProcessChunks(st, subject, chunks, fault, verbose, metaFails) ==
    IF fault = "enrich"
    THEN [Chunked(st, subject, chunks) EXCEPT !.raised = TRUE]
    ELSE store_dual(Chunked(st, subject, chunks), chunks, verbose, metaFails,
                    fault = "vector")

ProcessFile(st, file, fault, verbose, metaFails) ==
    IF fault \in {"curate", "chunk"}
    THEN [st EXCEPT !.raised = TRUE]
    ELSE ProcessChunks(st, file.filepath, ChunksOf(file), fault, verbose, metaFails)

\* The end of ingest_file: st1 is the pipeline after the stages ran.
FileDone(st1, file, verbose) ==
    IF st1.raised
    THEN [st |-> st1, returned |-> 0]
    ELSE [st |-> log(st1, verbose, "DONE_FILE", file.nchunks),
          returned |-> file.nchunks]

\* Returns the state and the returned chunk count; raised when it raises.
ingest_file(st, file, fault, verbose, metaFails) ==
    IF file.ext \notin SupportedExtensions \/ fault = "load"
    THEN [st |-> [st EXCEPT !.raised = TRUE], returned |-> 0]
    ELSE FileDone(ProcessFile(st, file, fault, verbose, metaFails), file, verbose)

\* The end of ingest_url and of ingest_text.
SourceDone(st1, src, verbose, kind) ==
    IF st1.raised
    THEN [st |-> st1, returned |-> 0]
    ELSE [st |-> log(st1, verbose, kind, src.nchunks), returned |-> src.nchunks]

\* ingest_url: load_url, the media literal, chunk, enrich, store.
ingest_url(st, url, fault, verbose, metaFails) ==
    IF fault \in {"load", "chunk"}
    THEN [st |-> [st EXCEPT !.raised = TRUE], returned |-> 0]
    ELSE SourceDone(ProcessChunks(st, <<url.url>>, UrlChunks(url), fault, verbose, metaFails),
                    url, verbose, "DONE_URL")

\* ingest_text: chunk_text under the literal metadata, enrich, store.
ingest_text(st, text, fault, verbose, metaFails) ==
    IF fault = "chunk"
    THEN [st |-> [st EXCEPT !.raised = TRUE], returned |-> 0]
    ELSE SourceDone(ProcessChunks(st, <<text.title>>, TextChunks(text), fault, verbose, metaFails),
                    text, verbose, "DONE_TEXT")

\* load_directory: unsupported files are not globbed, a file whose loader
\* raises is reported by the loader and skipped.
load_directory(files, faults) ==
    SelectSeq(files, LAMBDA f : f.ext \in SupportedExtensions /\ faults[f.filepath] # "load")

\* try: ... total_chunks += len(chunks)  except Exception: log and go on
TryFile(acc, f, st1, verbose) ==
    IF st1.raised
    THEN [acc EXCEPT !.st = log([st1 EXCEPT !.raised = FALSE],
                                verbose, "ERROR_FILE", f.filepath),
                     !.started = Append(@, f.filepath)]
    ELSE [st |-> st1, returned |-> acc.returned + f.nchunks,
          started |-> Append(acc.started, f.filepath),
          completed |-> Append(acc.completed, f.filepath)]

RECURSIVE DirLoopAbort(_, _, _, _, _)
DirLoopAbort(acc, files, faults, verbose, metaFails) ==
    IF files = <<>> \/ Len(acc.started) > Len(acc.completed)
    THEN acc
    ELSE DirLoopAbort(TryFile(acc, Head(files),
                              ProcessFile(acc.st, Head(files), faults[Head(files).filepath],
                                          verbose, metaFails),
                              verbose),
                      Tail(files), faults, verbose, metaFails)

\* for file_path, docs in files_docs.items(): try: ... except Exception: log
RECURSIVE DirLoop(_, _, _, _, _)
DirLoop(acc, files, faults, verbose, metaFails) ==
    IF files = <<>>
    THEN acc
    ELSE DirLoop(TryFile(acc, Head(files),
                         ProcessFile(acc.st, Head(files), faults[Head(files).filepath],
                                     verbose, metaFails),
                         verbose),
                 Tail(files), faults, verbose, metaFails)

\* The end of ingest_directory: the [DONE] line and the total.
DirectoryDone(acc, verbose) ==
    [acc EXCEPT !.st = log(acc.st, verbose, "DONE_DIRECTORY", acc.returned)]

ingest_directory(st, files, faults, verbose, metaFails) ==
    IF load_directory(files, faults) = <<>>
    THEN [st |-> log(st, verbose, "NO_DOCUMENTS", ""), returned |-> 0,
          started |-> <<>>, completed |-> <<>>]
    ELSE DirectoryDone(DirLoop([st |-> st, returned |-> 0, started |-> <<>>, completed |-> <<>>],
                               load_directory(files, faults), faults, verbose, metaFails),
                       verbose)

PipelineInit ==
    /\ db = EmptyDb
    /\ stored = <<>>
    /\ ret = [op |-> "none"]
    /\ writer = [w \in Writers |-> IdleWriter]
    /\ lock = NoWriter
    /\ reader = IdleReader
    /\ cands = <<>>
    /\ out = [op |-> "none"]
    /\ vindex = <<>>
    /\ call = [op |-> "none"]
    /\ self_verbose \in BOOLEAN
    /\ meta_call = [op |-> "none"]
    /\ MoreIdle

\* What the last call leaves to look at: r is the result of ingest_file or
\* ingest_directory, args the arguments and injected faults of the call.
CallRecord(op, verbose, r, args) ==
    [op |-> op, verbose |-> verbose, vector_ids |-> r.st.vector_ids,
     attempts |-> r.st.attempts, failed |-> r.st.failed, printed |-> r.st.printed,
     chunked |-> r.st.chunked, raised |-> r.st.raised, returned |-> r.returned]
    @@ args
    @@ [x \in DOMAIN r \ {"st", "returned"} |-> r[x]]

\* Both stores and the call record after a call that had outcome r.
Returns(op, r, args) ==
    /\ Len(r.st.vindex) <= MaxChunks
    /\ vindex' = r.st.vindex
    /\ db' = r.st.db
    /\ call' = CallRecord(op, self_verbose, r, args)
    /\ UNCHANGED <<moreVars, stored, ret, writer, lock, reader, retrievalVars, self_verbose, meta_call>>

IngestFile(file, fault, metaFails) ==
    Returns("ingest_file",
            ingest_file(PipelineState(vindex, db), file, fault, self_verbose, metaFails),
            [file |-> file, fault |-> fault])

IngestDirectory(files, faults, metaFails) ==
    Returns("ingest_directory",
            ingest_directory(PipelineState(vindex, db), files, faults, self_verbose, metaFails),
            [files |-> files, faults |-> faults])

IngestUrl(url, fault, metaFails) ==
    Returns("ingest_url",
            ingest_url(PipelineState(vindex, db), url, fault, self_verbose, metaFails),
            [url |-> url, fault |-> fault])

IngestText(text, fault, metaFails) ==
    Returns("ingest_text",
            ingest_text(PipelineState(vindex, db), text, fault, self_verbose, metaFails),
            [text |-> text, fault |-> fault])

UrlFaults == Faults \ {"curate"}

TextFaults == Faults \ {"load", "curate"}

\* The vector ids the index would hand out in a call, given the stage faults.
IdsOfFile(file, fault) ==
    Range(ingest_file(PipelineState(vindex, db), file, fault, FALSE, {}).st.vector_ids)

IdsOfDirectory(files, faults) ==
    Range(ingest_directory(PipelineState(vindex, db), files, faults, FALSE, {}).st.vector_ids)

IdsOfUrl(url, fault) ==
    Range(ingest_url(PipelineState(vindex, db), url, fault, FALSE, {}).st.vector_ids)

IdsOfText(text, fault) ==
    Range(ingest_text(PipelineState(vindex, db), text, fault, FALSE, {}).st.vector_ids)

\* The files of a directory that load_directory globs.
Globbed(files) ==
    {files[i].filepath : i \in {j \in DOMAIN files : files[j].ext \in SupportedExtensions}}

RECURSIVE SumChunks(_)
SumChunks(files) ==
    IF files = <<>> THEN 0 ELSE Head(files).nchunks + SumChunks(Tail(files))

\* The index has room for n more chunks (the bound on the stores).
Room(n) == Len(vindex) + n <= MaxChunks

PipelineNext ==
    \/ \E file \in Files, fault \in Faults :
         /\ Room(file.nchunks)
         /\ \E metaFails \in SUBSET IdsOfFile(file, fault) :
               IngestFile(file, fault, metaFails)
    \/ \E files \in Directories :
         /\ Room(SumChunks(files))
         /\ \E faults \in [Globbed(files) -> Faults] :
               \E metaFails \in SUBSET IdsOfDirectory(files, faults) :
                  IngestDirectory(files, faults, metaFails)
    \/ \E url \in Urls, fault \in UrlFaults :
         /\ Room(url.nchunks)
         /\ \E metaFails \in SUBSET IdsOfUrl(url, fault) :
               IngestUrl(url, fault, metaFails)
    \/ \E text \in Texts, fault \in TextFaults :
         /\ Room(text.nchunks)
         /\ \E metaFails \in SUBSET IdsOfText(text, fault) :
               IngestText(text, fault, metaFails)

SpecPipeline == PipelineInit /\ [][PipelineNext]_vars

\* ---------------------------------------------------------------------
\* Properties of the ingestion pipeline
\* ---------------------------------------------------------------------

\* The vector ids the index accepted during the last call: the tail of vindex.
AcceptedInCall ==
    SubSeq(vindex, Len(vindex) - Len(call.vector_ids) + 1, Len(vindex))

Warned(v) ==
    \E i \in DOMAIN call.printed :
        /\ call.printed[i].kind = "WARN_KNOWLEDGE_STORE"
        /\ call.printed[i].subject = v

\* C6: whenever the vector index accepted a chunk and add_document failed for
\* it, the call printed a log record naming that vector_id, whatever the
\* verbose setting the pipeline was constructed with.
C6_DivergenceLogged ==
    call.op # "none" => \A v \in call.failed : Warned(v)

\* C7: a metadata-store failure for one chunk does not abort the batch:
\* add_document is attempted for every vector id the index accepted, in
\* order, the full id list comes back, and ingest_file returns normally
\* with its chunk count.
C7_BatchNotAborted ==
    (call.op # "none" /\ call.failed # {}) =>
        /\ call.attempts = call.vector_ids
        /\ call.vector_ids = AcceptedInCall
        /\ call.op = "ingest_file" =>
              /\ ~call.raised
              /\ Len(call.vector_ids) = call.file.nchunks
              /\ call.returned = call.file.nchunks

\* The first chunk of a two-chunk file failed in the metadata store, the
\* second was attempted and stored, and ingest_file returned 2.
C7_Witness ==
    /\ call.op = "ingest_file"
    /\ call.file = FileB
    /\ Len(call.attempts) = 2
    /\ call.attempts[1] \in call.failed
    /\ call.attempts[2] \notin call.failed
    /\ FindDocument(db, call.attempts[2]) # 0
    /\ FindDocument(db, call.attempts[1]) = 0
    /\ call.returned = 2

\* C28: every vector_id in the metadata store was accepted by the vector
\* index before its row was written, a vector_id has at most one document
\* row, and a call that returns returns the number of chunks the vector
\* index took in it, whatever metadata inserts failed.
C28_OneDirectionalDivergence ==
    /\ VisibleIds(db) \subseteq Range(vindex)
    /\ \A i, j \in DOMAIN db.documents :
          db.documents[i].vector_id = db.documents[j].vector_id => i = j
    /\ call.op # "none" =>
          /\ Range(call.attempts) \subseteq Range(call.vector_ids)
          /\ ~call.raised => call.returned = Len(call.vector_ids)

\* A directory call in which a metadata insert failed: the index holds an
\* id the metadata store does not, and the call returned the number of
\* chunks the index took, more than the rows written.
C28_Witness ==
    /\ call.op = "ingest_directory"
    /\ call.failed # {}
    /\ call.failed \subseteq Range(vindex) \ VisibleIds(db)
    /\ call.returned = Len(call.vector_ids)
    /\ call.returned > Len(db.documents)
    /\ Len(db.documents) >= 1

\* The files of the last ingest_directory call that were read from disk.
LoadedFiles ==
    SelectSeq(call.files,
              LAMBDA f : f.ext \in SupportedExtensions /\ call.faults[f.filepath] # "load")

\* C8: ingest_directory never raises because of one file; every loaded file
\* is processed, in order, whatever happened to the files before it; the
\* files that complete are those no stage failed for, and the returned total
\* is the sum of their chunk counts.
C8_FileIsolation ==
    call.op = "ingest_directory" =>
        /\ ~call.raised
        /\ call.started = [i \in DOMAIN LoadedFiles |-> LoadedFiles[i].filepath]
        /\ \A i \in DOMAIN LoadedFiles :
              (LoadedFiles[i].filepath \in Range(call.completed))
                 <=> (call.faults[LoadedFiles[i].filepath] = "none")
        /\ call.returned =
              SumChunks(SelectSeq(LoadedFiles,
                                  LAMBDA f : f.filepath \in Range(call.completed)))

\* The first file of a directory failed in a stage after loading, the second
\* was still processed and the total is its chunk count alone.
C8_Witness ==
    /\ call.op = "ingest_directory"
    /\ Len(call.started) = 2
    /\ call.faults[call.started[1]] \in {"curate", "chunk", "enrich", "vector"}
    /\ call.faults[call.started[2]] = "none"
    /\ call.completed = <<call.started[2]>>
    /\ call.returned = LoadedFiles[2].nchunks
    /\ FindDocument(db, vindex[Len(vindex)]) # 0

SourceTypes == {"community", "academic", "media", "archival", "general"}

\* C11: every row of the documents table, whichever entry point wrote it,
\* has a source_type among community, academic, media, archival, general,
\* and the authority_level and epistemic_origin the classification table
\* gives for that source_type.
C11_StoredTripleInTable ==
    \A i \in DOMAIN db.documents :
        /\ db.documents[i].source_type \in SourceTypes
        /\ db.documents[i].authority_level =
              determine_authority_level(db.documents[i].source_type)
        /\ db.documents[i].epistemic_origin =
              determine_epistemic_origin(db.documents[i].source_type)

NoRepeat(seq) == \A i, j \in DOMAIN seq : seq[i] = seq[j] => i = j

\* C12: the chunks the chunker produced from one source document in the
\* last call carry non-negative, pairwise different chunk_index values,
\* also when the loader delivered the file as several page documents.
C12_ChunkIndexUnique ==
    call.op # "none" =>
        \A i \in DOMAIN call.chunked :
            /\ \A j \in DOMAIN call.chunked[i].chunk_index :
                  call.chunked[i].chunk_index[j] >= 0
            /\ NoRepeat(call.chunked[i].chunk_index)

\* =========================================================================
\* The curation API: submit, approve, reject.  A handler is async and calls
\* the store synchronously, so it runs to its end before the next request
\* is served: one action per request.  The store's submission methods are
\* called by the handlers but are not part of KnowledgeStore as given; they
\* are taken as the handlers and the workflow test use them: add_submission
\* files the data as a new row with status pending and no curator and
\* returns its id, get_submission_by_id returns the row or None,
\* update_submission_status sets status and curator_id of the row.
\* background_tasks lists the add_task calls, with whether the task has run.
\* =========================================================================
MaxSubmissions == 2

Users ==
    {[id |-> "test_user", role |-> "contributor"],
     [id |-> "test_admin", role |-> "curator"],
     [id |-> "root", role |-> "admin"]}

\* Those who submit here; the administrator only curates.
Submitters == {user \in Users : user.role # "admin"}

Payloads ==
    {[title |-> "t", source_type |-> "community", content |-> c, raw_url |-> ""] :
        c \in {"", "text"}}

add_submission(rows, data) ==
    Append(rows, data @@ [status |-> "pending", curator_id |-> None])

\* The row with its id, or the empty record for None.
get_submission_by_id(rows, id) ==
    IF id \in DOMAIN rows THEN [id |-> id] @@ rows[id] ELSE <<>>

update_submission_status(rows, id, status, curator_id) ==
    [rows EXCEPT ![id] = [status |-> status, curator_id |-> curator_id] @@ @]

\* require_curator
IsCurator(user) == user.role \in {"curator", "admin"}

\* A handler's outcome: the status code, the rows and the task list it
\* leaves.
submit_knowledge(submission, user, rows, tasks) ==
    IF submission.content = "" /\ submission.raw_url = ""
    THEN [status_code |-> 400, rows |-> rows, tasks |-> tasks]
    ELSE [status_code |-> 200,
          rows |-> add_submission(rows, [submitted_by |-> user.id] @@ submission),
          tasks |-> tasks]

\* An approval that does not look at the status of the submission.
approve_submission_any_status(id, user, rows, tasks) ==
    IF ~IsCurator(user) THEN [status_code |-> 403, rows |-> rows, tasks |-> tasks]
    ELSE IF DOMAIN get_submission_by_id(rows, id) = {}
    THEN [status_code |-> 404, rows |-> rows, tasks |-> tasks]
    ELSE [status_code |-> 200,
          rows |-> update_submission_status(rows, id, "approved", user.id),
          tasks |-> Append(tasks, [id |-> id, done |-> FALSE])]

approve_submission(id, user, rows, tasks) ==
    IF ~IsCurator(user) THEN [status_code |-> 403, rows |-> rows, tasks |-> tasks]
    ELSE IF DOMAIN get_submission_by_id(rows, id) = {}
    THEN [status_code |-> 404, rows |-> rows, tasks |-> tasks]
    ELSE IF get_submission_by_id(rows, id).status # "pending"
    THEN [status_code |-> 400, rows |-> rows, tasks |-> tasks]
    ELSE [status_code |-> 200,
          rows |-> update_submission_status(rows, id, "approved", user.id),
          tasks |-> Append(tasks, [id |-> id, done |-> FALSE])]

reject_submission(id, user, rows, tasks) ==
    IF ~IsCurator(user) THEN [status_code |-> 403, rows |-> rows, tasks |-> tasks]
    ELSE IF DOMAIN get_submission_by_id(rows, id) = {}
    THEN [status_code |-> 404, rows |-> rows, tasks |-> tasks]
    ELSE [status_code |-> 200,
          rows |-> update_submission_status(rows, id, "rejected", user.id),
          tasks |-> tasks]

CurationInit ==
    /\ RestIdleButMeta
    /\ meta_call = [op |-> "none"]
    /\ chunker_call = [op |-> "none"]
    /\ submissions = <<>>
    /\ background_tasks = <<>>
    /\ response = [op |-> "none"]

\* What a request found: the status and the curator of the submission it
\* names ("missing" when there is none) and the task list.
Found(id) ==
    [was |-> IF id \in DOMAIN submissions THEN submissions[id].status ELSE "missing",
     curator_was |-> IF id \in DOMAIN submissions THEN submissions[id].curator_id ELSE None,
     tasks_were |-> background_tasks]

Answer(op, id, user, result) ==
    /\ submissions' = result.rows
    /\ background_tasks' = result.tasks
    /\ response' = [op |-> op, id |-> id, user |-> user,
                    status_code |-> result.status_code] @@ Found(id)

SubmitKnowledge ==
    /\ Len(submissions) < MaxSubmissions
    /\ \E user \in Submitters, submission \in Payloads :
          Answer("submit", Len(submissions) + 1, user,
                 submit_knowledge(submission, user, submissions, background_tasks))
    /\ UNCHANGED <<storeVars, retrievalVars, pipelineVars, chunker_call>>

ApproveSubmission ==
    /\ \E user \in Users, id \in 1..MaxSubmissions :
          Answer("approve", id, user,
                 approve_submission(id, user, submissions, background_tasks))
    /\ UNCHANGED <<storeVars, retrievalVars, pipelineVars, chunker_call>>

RejectSubmission ==
    /\ \E user \in Users, id \in 1..MaxSubmissions :
          Answer("reject", id, user,
                 reject_submission(id, user, submissions, background_tasks))
    /\ UNCHANGED <<storeVars, retrievalVars, pipelineVars, chunker_call>>

\* The server runs a queued process_ingestion after the response is sent;
\* the task catches every exception, and its work on the stores is that of
\* the ingestion pipeline.
ProcessIngestion ==
    /\ \E t \in DOMAIN background_tasks :
          /\ ~background_tasks[t].done
          /\ \A u \in 1..(t - 1) : background_tasks[u].done
          /\ background_tasks' = [background_tasks EXCEPT ![t].done = TRUE]
    /\ UNCHANGED <<storeVars, retrievalVars, pipelineVars, chunker_call, submissions,
                   response>>

CurationNext ==
    SubmitKnowledge \/ ApproveSubmission \/ RejectSubmission \/ ProcessIngestion

SpecCuration == CurationInit /\ [][CurationNext]_vars

\* The tasks queued for a submission.
TasksFor(tasks, id) == {t \in DOMAIN tasks : tasks[t].id = id}

\* C25: a submitted item starts pending with the submitter's id; approving
\* a pending submission as a curator makes it approved, records the
\* curator's id and queues ingestion exactly once; approving a submission
\* that is not pending is refused and queues nothing; ingestion is queued
\* at most once per submission, whatever the calls.
C25_CurationWorkflow ==
    /\ (response.op = "submit" /\ response.status_code = 200) =>
          /\ response.id \in DOMAIN submissions
          /\ submissions[response.id].status = "pending"
          /\ submissions[response.id].submitted_by = response.user.id
    /\ (response.op = "approve" /\ IsCurator(response.user) /\ response.was = "pending") =>
          /\ response.status_code = 200
          /\ submissions[response.id].status = "approved"
          /\ submissions[response.id].curator_id = response.user.id
          /\ Cardinality(TasksFor(background_tasks, response.id))
                = Cardinality(TasksFor(response.tasks_were, response.id)) + 1
    /\ (response.op = "approve" /\ response.was \in {"approved", "rejected"}) =>
          /\ response.status_code \in {400, 403}
          /\ Len(background_tasks) = Len(response.tasks_were)
          /\ submissions[response.id].status = response.was
    /\ \A id \in DOMAIN submissions :
          Cardinality(TasksFor(background_tasks, id)) <= 1

\* A pending submission of test_user approved by test_admin: one task.
C25_Witness ==
    /\ response.op = "approve"
    /\ response.status_code = 200
    /\ response.was = "pending"
    /\ response.user.id = "test_admin"
    /\ submissions[response.id].submitted_by = "test_user"
    /\ submissions[response.id].status = "approved"
    /\ submissions[response.id].curator_id = "test_admin"
    /\ Cardinality(TasksFor(background_tasks, response.id)) = 1

\* A second approval of an approved submission, refused with 400.
C25_WitnessRefused ==
    /\ response.op = "approve"
    /\ response.status_code = 400
    /\ response.was = "approved"
    /\ Cardinality(TasksFor(background_tasks, response.id)) = 1

\* C30: once a submission's status has left pending, no approve or reject
\* call changes its status or its curator; a submission whose ingestion has
\* been queued is approved.
C30_DecisionIsFinal ==
    /\ (response.op \in {"approve", "reject"} /\ response.was \in {"approved", "rejected"}) =>
          /\ submissions[response.id].status = response.was
          /\ submissions[response.id].curator_id = response.curator_was
    /\ \A id \in DOMAIN submissions :
          TasksFor(background_tasks, id) # {} => submissions[id].status = "approved"

\* The approve half of C30: an approve call leaves a decided submission as
\* it is.
C30_ApproveKeepsDecision ==
    (response.op = "approve" /\ response.was \in {"approved", "rejected"}) =>
        /\ submissions[response.id].status = response.was
        /\ submissions[response.id].curator_id = response.curator_was

====
